---- MODULE Spec2Model ----
(***************************************************************************)
(* The risk-management and position-state engine of the alpha trading bot. *)
(*                                                                         *)
(* RiskManager exists twice in the repository: the multi-exchange,         *)
(* collateral-aware class of src/engine/alpha/risk_manager.py and the      *)
(* single-exchange class of src/alpha/risk_manager.py.  The variable       *)
(* `variant` says which class was constructed; it never changes.           *)
(*                                                                         *)
(* Units.  Python floats are modelled by exact integer arithmetic: money   *)
(* is counted in cents, prices in dollars and amounts in hundredths of a   *)
(* coin, so that price * amount is a value in cents.  A percentage is kept *)
(* as a fraction <<numerator, denominator>> and compared by cross          *)
(* multiplication, never rounded.                                          *)
(***************************************************************************)
EXTENDS Integers, Sequences, FiniteSets, TLC

VARIABLES
    variant,            \* "multi" (src/engine/alpha) or "single" (src/alpha)
    capital,            \* RiskManager.capital
    binance_capital,    \* RiskManager.binance_capital     (multi only)
    delta_capital,      \* RiskManager.delta_capital       (multi only)
    open_positions,     \* RiskManager.open_positions: sequence of Position
    daily_pnl,          \* RiskManager.daily_pnl
    daily_pnl_by_pair,  \* RiskManager.daily_pnl_by_pair: function on a set of pairs
    trade_results,      \* RiskManager.trade_results: sequence of BOOLEAN
    is_paused,          \* RiskManager.is_paused
    pause_reason,       \* RiskManager._pause_reason
    calls,              \* the callers between approve_signal's return and their
                        \* next step: records [signal, ret, rule]
    caller,             \* what a caller holds between two other calls: the
                        \* value check_liquidation_risk returned to it, or what
                        \* it saw before its record_open; [op |-> "none"] if idle
    strategy,           \* one strategy object of src/engine/alpha/strategies:
                        \* its fields; [kind |-> "none"] if none is built
    tick,               \* what the strategy's last check() did: the gate it
                        \* returned at, whether it evaluated the exits, the
                        \* signals it returned and how the entry was sized
    bot,                \* AlphaBot (src/alpha/main.py): _running,
                        \* _active_strategies, the strategies that run, and
                        \* StrategySelector._current
    tasks               \* the coroutines of the bot suspended at an await

rm_vars == <<capital, binance_capital, delta_capital, open_positions, daily_pnl,
             daily_pnl_by_pair, trade_results, is_paused, pause_reason>>

vars == <<variant, capital, binance_capital, delta_capital, open_positions,
          daily_pnl, daily_pnl_by_pair, trade_results, is_paused, pause_reason,
          calls, caller, strategy, tick, bot, tasks>>

\* The strategy and the bot: untouched by the callers of the RiskManager below.
app_vars == <<strategy, tick, bot, tasks>>

NoObject == [kind |-> "none"]

\* The RiskManager on its own: no strategy and no bot is built.
Detached ==
    /\ strategy = NoObject
    /\ tick = NoObject
    /\ bot = NoObject
    /\ tasks = {}

----------------------------------------------------------------------------
(* Configuration (alpha.config.config.trading), read once in __init__.     *)

starting_capital == 100000

max_position_pct == 30

max_total_exposure_pct == 60

max_concurrent == 2

daily_loss_limit_pct == 5

\* The window of the win-rate circuit breaker and its threshold.
WinRateWindow == 20

WinRateMinPct == 40

\* 5% tolerance of the position-size limit: max_value * 1.05 = max_value * 105 / 100.
SizeTolerancePct == 105

----------------------------------------------------------------------------
(* Bounds of the model.                                                    *)

\* record_close is called while len(trade_results) < MaxResults.
MaxResults == 21

\* At most MaxCalls callers hold an approve_signal result at a time.
MaxCalls == 2

Variants == {"multi", "single"}

Pairs == {"BTC/USDT", "ETH/USDT"}

PauseDailyLoss == "daily loss limit reached"

PauseWinRate == "win rate too low"

\* params of the dashboard's pause command: no "reason" key (the default text
\* is used), or a reason text.
PauseDefault == "Paused via dashboard"

PauseParams == {<< >>, <<"">>, <<"manual stop after daily loss">>}

\* Current prices passed to check_liquidation_risk.
CurrentPrices == {0, 95}

----------------------------------------------------------------------------
(* Signal (alpha.strategies.base.Signal): the fields RiskManager reads.    *)

Sig(pair, side, price, amount, position_type, leverage, exchange_id, reduce_only, name) ==
    [pair |-> pair, side |-> side, price |-> price, amount |-> amount,
     position_type |-> position_type, leverage |-> leverage,
     exchange_id |-> exchange_id, reduce_only |-> reduce_only,
     strategy |-> name]

\* The signals the strategies emit in the model: spot entries of $250, $350
\* and $500 on one pair and of $150 on the other, a spot exit of $315, a 5x
\* long entry of $5 collateral, and the reduce-only buy that closes a short
\* (futures_momentum.py, _close_short_signal).
Signals ==
    { Sig("BTC/USDT", "buy",  10, 2500, "spot", 1, "binance", FALSE, "scalp"),
      Sig("BTC/USDT", "buy",  10, 3500, "spot", 1, "binance", FALSE, "scalp"),
      Sig("BTC/USDT", "buy",  10, 5000, "spot", 1, "binance", FALSE, "scalp"),
      Sig("ETH/USDT", "buy",  10, 1500, "spot", 1, "binance", FALSE, "scalp"),
      Sig("BTC/USDT", "sell", 10, 3150, "spot", 1, "binance", FALSE, "scalp"),
      Sig("ETH/USDT", "buy",  100, 5,   "long",  5, "delta", FALSE, "futures_momentum"),
      Sig("BTC/USDT", "buy",  100, 250, "short", 5, "delta", TRUE,  "futures_momentum") }

\* The single-exchange bot trades spot only (src/alpha/main.py).
SignalsFor(v) ==
    IF v = "multi" THEN Signals ELSE {s \in Signals : s.position_type = "spot"}

\* Two strategies that watch the same pair and want the same entry.
RaceSignals ==
    { Sig("BTC/USDT", "buy", 10, 2500, "spot", 1, "binance", FALSE, "scalp"),
      Sig("BTC/USDT", "buy", 10, 2500, "spot", 1, "binance", FALSE, "momentum") }

\* Realized P&L of a close, in cents: a $50 loss, a $1 loss, break-even.
PnLs == {-5000, -100, 0}

\* update_exchange_balances arguments: <<>> is None, <<b>> a balance in cents.
BinanceBalances == {<<>>, <<100000>>, <<200000>>}

DeltaBalances == {<<>>, <<100000>>}

----------------------------------------------------------------------------
(* Fractions: <<n, d>> with d # 0 stands for the float n / d.              *)

FracGeq(f, k) == IF f[2] > 0 THEN f[1] >= k * f[2] ELSE f[1] <= k * f[2]

FracGt(f, k) == IF f[2] > 0 THEN f[1] > k * f[2] ELSE f[1] < k * f[2]

FracLt(f, k) == IF f[2] > 0 THEN f[1] < k * f[2] ELSE f[1] > k * f[2]

Abs(x) == IF x < 0 THEN -x ELSE x

Min(x, y) == IF x < y THEN x ELSE y

RECURSIVE SumValues(_)
\* sum(p.entry_price * p.amount for p in positions)
SumValues(positions) ==
    IF positions = <<>> THEN 0
    ELSE Head(positions).entry_price * Head(positions).amount
         + SumValues(Tail(positions))

RECURSIVE CountTrue(_)
\* sum(recent) for a list of bool
CountTrue(results) ==
    IF results = <<>> THEN 0
    ELSE (IF Head(results) THEN 1 ELSE 0) + CountTrue(Tail(results))

\* results[-n:]
\* Reading in which the win rate is taken over the whole history.
WholeHistory(results, n) == results

LastN(results, n) ==
    IF Len(results) <= n THEN results
    ELSE SubSeq(results, Len(results) - n + 1, Len(results))

----------------------------------------------------------------------------
(* Properties of RiskManager.                                              *)

\* win_rate, as a fraction: 100.0 when there is no trade yet.
win_rate ==
    IF trade_results = <<>> THEN <<100, 1>>
    ELSE LET recent == LastN(trade_results, WinRateWindow)
         IN  <<CountTrue(recent) * 100, Len(recent)>>

\* daily_loss_pct, as a fraction: 0.0 when capital is 0.
daily_loss_pct ==
    IF capital = 0 THEN <<0, 1>>
    ELSE <<Abs(Min(daily_pnl, 0)) * 100, capital>>

\* total_exposure: both branches of the multi variant add entry_price * amount.
total_exposure == SumValues(open_positions)

\* total_exposure_pct, as a fraction: 0.0 when capital is 0.
total_exposure_pct ==
    IF capital = 0 THEN <<0, 1>> ELSE <<total_exposure * 100, capital>>

\* p.position_type == "spot"
IsSpot(p) == p.position_type = "spot"

\* p.position_type in ("long", "short")
IsFutures(p) == p.position_type \in {"long", "short"}

RECURSIVE SumNotional(_)
\* sum(p.entry_price * p.amount * p.leverage for p in positions)
SumNotional(positions) ==
    IF positions = << >> THEN 0
    ELSE Head(positions).entry_price * Head(positions).amount
            * Head(positions).leverage
         + SumNotional(Tail(positions))

\* spot_exposure, futures_exposure, futures_notional of the multi variant.
spot_exposure == SumValues(SelectSeq(open_positions, IsSpot))

futures_exposure == SumValues(SelectSeq(open_positions, IsFutures))

\* Reading in which the notional of a futures position is its margin.
futures_margin == SumValues(SelectSeq(open_positions, IsFutures))

futures_notional == SumNotional(SelectSeq(open_positions, IsFutures))

\* Reading in which only sell-side positions occupy a pair.
pairs_with_sell_positions ==
    {open_positions[i].pair :
        i \in {j \in 1..Len(open_positions) : open_positions[j].side = "sell"}}

pairs_with_positions == {open_positions[i].pair : i \in 1..Len(open_positions)}

\* Reading in which a pair counts as taken only from its second position on.
has_two_positions(pair) ==
    Cardinality({i \in 1..Len(open_positions) : open_positions[i].pair = pair}) >= 2

has_position(pair) == pair \in pairs_with_positions

get_exchange_capital(exchange_id) ==
    IF exchange_id = "delta" THEN delta_capital ELSE binance_capital

----------------------------------------------------------------------------
(* approve_signal: the checks in the order of the code.  An outcome is the *)
(* return value, the pause state the call leaves, and the rule that        *)
(* decided (the message the call logs).                                    *)

Outcome(ret, rule, paused, reason) ==
    [ret |-> ret, rule |-> rule, paused |-> paused, reason |-> reason]

\* Reading in which every rejection also pauses the manager.
RejectAndPause(rule) == Outcome("False", rule, TRUE, rule)

\* Reading in which a rejection lifts the pause.
RejectAndUnpause(rule) == Outcome("False", rule, FALSE, "")

\* A return False that leaves the pause state alone.
Reject(rule) == Outcome("False", rule, is_paused, pause_reason)

\* self._pause(reason); return False
PauseAndReject(rule, reason) == Outcome("False", rule, TRUE, reason)

\* Reading in which only a spot buy opens a position.
is_spot_buy(signal) == signal.position_type = "spot" /\ signal.side = "buy"

\* Reading in which every buy opens a position.
is_buy_side(signal) == signal.side = "buy"

\* Spot: only "buy" opens.  Futures: any non-reduce_only signal opens.
is_opening(signal) ==
    \/ (signal.position_type = "spot" /\ signal.side = "buy")
    \/ (signal.position_type \in {"long", "short"} /\ ~signal.reduce_only)

\* Reading in which the size of a futures order is its notional value.
notional_value(signal) == signal.price * signal.amount * signal.leverage

trade_value(signal) == signal.price * signal.amount

\* Reading in which the size limit is always taken from the total capital.
total_capital_of(signal) == capital

\* The capital pool of the signal's exchange, or the total if that pool is unset.
exchange_capital_of(signal) ==
    IF get_exchange_capital(signal.exchange_id) <= 0
    THEN capital
    ELSE get_exchange_capital(signal.exchange_id)

\* Reading in which no trade is ever too large.
NeverExceeds(value, exchange_capital) == FALSE

\* value > max_value * 1.05 with max_value = exchange_capital * (max_position_pct / 100)
ExceedsPositionLimit(value, exchange_capital) ==
    value * 100 * 100 > exchange_capital * max_position_pct * SizeTolerancePct

\* Reading in which the exposure cap looks at the exposure already held only.
current_exposure_pct(signal) ==
    IF capital = 0 THEN <<0, 1>> ELSE <<total_exposure * 100, capital>>

\* (new_exposure / self.capital) * 100 if self.capital else 0
new_exposure_pct(signal) ==
    IF capital = 0 THEN <<0, 1>>
    ELSE <<(total_exposure + trade_value(signal)) * 100, capital>>

\* Reading in which the pause gate stops opening signals only.
PauseGateOpeningOnly(signal) == is_paused /\ is_opening(signal)

\* if self.is_paused: ... return False
PauseGate(signal) == is_paused

\* Reading in which the daily-loss breaker needs the limit to be exceeded.
DailyLossExceeded == FracGt(daily_loss_pct, daily_loss_limit_pct)

\* Reading in which the win-rate breaker is looked at before the daily loss.
DailyLossBreachedAfterWinRate ==
    /\ FracGeq(daily_loss_pct, daily_loss_limit_pct)
    /\ ~(Len(trade_results) >= WinRateWindow /\ FracLt(win_rate, WinRateMinPct))

DailyLossBreached == FracGeq(daily_loss_pct, daily_loss_limit_pct)

\* Reading in which the win-rate breaker needs more than a full window.
WinRateBreachedLate ==
    Len(trade_results) > WinRateWindow /\ FracLt(win_rate, WinRateMinPct)

WinRateBreached ==
    Len(trade_results) >= WinRateWindow /\ FracLt(win_rate, WinRateMinPct)

\* src/engine/alpha/risk_manager.py
approve_multi(signal) ==
    IF PauseGate(signal) THEN Reject("paused")
    ELSE IF DailyLossBreached THEN PauseAndReject("daily_loss", PauseDailyLoss)
    ELSE IF WinRateBreached THEN PauseAndReject("win_rate", PauseWinRate)
    ELSE IF is_opening(signal) /\ Len(open_positions) >= max_concurrent
         THEN Reject("max_concurrent")
    ELSE IF is_opening(signal) /\ has_position(signal.pair)
         THEN Reject("pair")
    ELSE IF ExceedsPositionLimit(trade_value(signal), exchange_capital_of(signal))
         THEN Reject("size")
    ELSE IF is_opening(signal)
            /\ FracGt(new_exposure_pct(signal), max_total_exposure_pct)
         THEN Reject("exposure")
    ELSE Outcome("True", "approved", is_paused, pause_reason)

\* src/alpha/risk_manager.py: a buy opens; one capital pool; the exposure
\* percentage divides by capital without a guard.
approve_single(signal) ==
    IF PauseGate(signal) THEN Reject("paused")
    ELSE IF DailyLossBreached THEN PauseAndReject("daily_loss", PauseDailyLoss)
    ELSE IF WinRateBreached THEN PauseAndReject("win_rate", PauseWinRate)
    ELSE IF signal.side = "buy" /\ Len(open_positions) >= max_concurrent
         THEN Reject("max_concurrent")
    ELSE IF signal.side = "buy" /\ has_position(signal.pair)
         THEN Reject("pair")
    ELSE IF ExceedsPositionLimit(trade_value(signal), capital)
         THEN Reject("size")
    ELSE IF signal.side = "buy" /\ capital = 0
         THEN Outcome("ZeroDivisionError", "exposure", is_paused, pause_reason)
    ELSE IF signal.side = "buy"
            /\ FracGt(<<(total_exposure + trade_value(signal)) * 100, capital>>,
                      max_total_exposure_pct)
         THEN Reject("exposure")
    ELSE Outcome("True", "approved", is_paused, pause_reason)

\* Reading in which the concurrency cap lets the signal through.
approve_uncapped(signal) ==
    LET outcome == IF variant = "multi" THEN approve_multi(signal)
                   ELSE approve_single(signal)
    IN  IF outcome.rule = "max_concurrent"
        THEN Outcome("True", "approved", is_paused, pause_reason)
        ELSE outcome

approve_outcome(signal) ==
    IF variant = "multi" THEN approve_multi(signal) ELSE approve_single(signal)

\* The caller's record of one approve_signal call.
Call(signal, outcome) ==
    [signal |-> signal, ret |-> outcome.ret, rule |-> outcome.rule]

approve_signal(signal) ==
    /\ Call(signal, approve_outcome(signal)) \notin calls
    /\ is_paused' = approve_outcome(signal).paused
    /\ pause_reason' = approve_outcome(signal).reason
    /\ calls' = calls \cup {Call(signal, approve_outcome(signal))}
    /\ UNCHANGED <<variant, capital, binance_capital, delta_capital,
                   open_positions, daily_pnl, daily_pnl_by_pair, trade_results>>

----------------------------------------------------------------------------
(* Position tracking.  opened_at (a timestamp) is left out of a Position.  *)

Position(signal) ==
    IF variant = "multi"
    THEN [pair |-> signal.pair, side |-> signal.side,
          entry_price |-> signal.price, amount |-> signal.amount,
          strategy |-> signal.strategy, exchange |-> signal.exchange_id,
          leverage |-> signal.leverage, position_type |-> signal.position_type]
    ELSE [pair |-> signal.pair, side |-> signal.side,
          entry_price |-> signal.price, amount |-> signal.amount,
          strategy |-> signal.strategy]

\* Reading in which record_open refuses a pair that is already held.
record_open_checked(signal) ==
    /\ ~has_position(signal.pair)
    /\ open_positions' = Append(open_positions, Position(signal))
    /\ UNCHANGED <<variant, capital, binance_capital, delta_capital, daily_pnl,
                   daily_pnl_by_pair, trade_results, is_paused, pause_reason>>

\* self.open_positions.append(Position(...)); nothing else changes.
\* Reading in which opening a position debits its value from capital.
record_open_debiting(signal) ==
    /\ open_positions' = Append(open_positions, Position(signal))
    /\ capital' = capital - signal.price * signal.amount
    /\ UNCHANGED <<variant, binance_capital, delta_capital, daily_pnl,
                   daily_pnl_by_pair, trade_results, is_paused, pause_reason>>

record_open(signal) ==
    /\ open_positions' = Append(open_positions, Position(signal))
    /\ UNCHANGED <<variant, capital, binance_capital, delta_capital, daily_pnl,
                   daily_pnl_by_pair, trade_results, is_paused, pause_reason>>

RECURSIVE RemoveAll(_, _)
\* Reading in which a close removes every position of the pair.
RemoveAll(positions, pair) ==
    IF positions = <<>> THEN <<>>
    ELSE IF Head(positions).pair = pair
         THEN RemoveAll(Tail(positions), pair)
         ELSE <<Head(positions)>> \o RemoveAll(Tail(positions), pair)

\* Reading in which a close of a pair that is not held drops the oldest position.
RemoveFirstOrOldest(positions, pair) ==
    IF \E i \in 1..Len(positions) : positions[i].pair = pair
    THEN RemoveAll(positions, pair)
    ELSE IF positions = << >> THEN << >> ELSE Tail(positions)

RECURSIVE RemoveFirst(_, _)
\* The positions without the first one of `pair`.
RemoveFirst(positions, pair) ==
    IF positions = <<>> THEN <<>>
    ELSE IF Head(positions).pair = pair THEN Tail(positions)
    ELSE <<Head(positions)>> \o RemoveFirst(Tail(positions), pair)

\* daily_pnl_by_pair[pair] = daily_pnl_by_pair.get(pair, 0.0) + pnl
AddPnl(by_pair, pair, pnl) ==
    [p \in DOMAIN by_pair \cup {pair} |->
        IF p = pair
        THEN (IF pair \in DOMAIN by_pair THEN by_pair[pair] ELSE 0) + pnl
        ELSE by_pair[p]]

\* Reading in which a close books the result and leaves the ledger alone.
record_close_keeping(pair, pnl) ==
    /\ daily_pnl' = daily_pnl + pnl
    /\ daily_pnl_by_pair' = AddPnl(daily_pnl_by_pair, pair, pnl)
    /\ trade_results' = Append(trade_results, pnl >= 0)
    /\ capital' = capital + pnl
    /\ UNCHANGED <<variant, binance_capital, delta_capital, open_positions,
                   is_paused, pause_reason>>

record_close(pair, pnl) ==
    /\ daily_pnl' = daily_pnl + pnl
    /\ daily_pnl_by_pair' = AddPnl(daily_pnl_by_pair, pair, pnl)
    /\ trade_results' = Append(trade_results, pnl >= 0)
    /\ open_positions' = RemoveFirst(open_positions, pair)
    /\ capital' = capital + pnl
    /\ UNCHANGED <<variant, binance_capital, delta_capital, is_paused, pause_reason>>

----------------------------------------------------------------------------
(* Daily reset, pause control, balances.                                   *)

\* "daily loss" in reason: the texts of the model that contain these words.
MentionsDailyLoss(reason) ==
    reason \in {PauseDailyLoss, "manual stop after daily loss"}

\* Reading in which the daily reset only lifts a daily-loss pause.
reset_daily_pause_only ==
    /\ IF is_paused /\ pause_reason = PauseDailyLoss
       THEN is_paused' = FALSE /\ pause_reason' = ""
       ELSE UNCHANGED <<is_paused, pause_reason>>
    /\ UNCHANGED <<variant, capital, binance_capital, delta_capital,
                   open_positions, daily_pnl, daily_pnl_by_pair, trade_results>>

\* Reading in which the daily reset also starts a new result history.
reset_daily_and_history ==
    /\ daily_pnl' = 0
    /\ daily_pnl_by_pair' = << >>
    /\ trade_results' = << >>
    /\ UNCHANGED <<variant, capital, binance_capital, delta_capital,
                   open_positions, is_paused, pause_reason>>

reset_daily ==
    /\ daily_pnl' = 0
    /\ daily_pnl_by_pair' = << >>
    /\ IF is_paused /\ MentionsDailyLoss(pause_reason)
       THEN is_paused' = FALSE /\ pause_reason' = ""
       ELSE UNCHANGED <<is_paused, pause_reason>>
    /\ UNCHANGED <<variant, capital, binance_capital, delta_capital,
                   open_positions, trade_results>>

\* Reading in which unpausing also forgets the day's losses and the results.
unpause_and_forgive ==
    /\ is_paused' = FALSE
    /\ pause_reason' = ""
    /\ daily_pnl' = 0
    /\ trade_results' = << >>
    /\ UNCHANGED <<variant, capital, binance_capital, delta_capital,
                   open_positions, daily_pnl_by_pair>>

unpause ==
    /\ is_paused' = FALSE
    /\ pause_reason' = ""
    /\ UNCHANGED <<variant, capital, binance_capital, delta_capital,
                   open_positions, daily_pnl, daily_pnl_by_pair, trade_results>>

\* binance, delta: <<>> for None, <<b>> for a balance.
update_exchange_balances(binance, delta) ==
    /\ variant = "multi"
    /\ binance_capital' = IF binance # <<>> THEN binance[1] ELSE binance_capital
    /\ delta_capital' = IF delta # <<>> THEN delta[1] ELSE delta_capital
    /\ capital' = binance_capital' + delta_capital'
    /\ UNCHANGED <<variant, open_positions, daily_pnl, daily_pnl_by_pair,
                   trade_results, is_paused, pause_reason>>

\* src/alpha/main.py, _handle_command, command == "pause": the two fields are
\* assigned directly, the reason being params.get("reason", default).
pause_command(params) ==
    /\ is_paused' = TRUE
    /\ pause_reason' = IF params = << >> THEN PauseDefault ELSE params[1]
    /\ UNCHANGED <<variant, capital, binance_capital, delta_capital,
                   open_positions, daily_pnl, daily_pnl_by_pair, trade_results>>

\* Reading in which a short is liquidated where a long is.
distance_pct_as_long(pos, current_price) ==
    IF current_price = 0 THEN [ret |-> "ZeroDivisionError"]
    ELSE [ret |-> "value",
          num |-> (current_price * pos.leverage
                     - pos.entry_price * (pos.leverage - 1)) * 100,
          den |-> current_price * pos.leverage]

\* Distance to liquidation of one futures position, as a fraction:
\* long:  (current_price - entry * (1 - 1/leverage)) / current_price * 100
\* short: (entry * (1 + 1/leverage) - current_price) / current_price * 100
distance_pct(pos, current_price) ==
    IF current_price = 0 THEN [ret |-> "ZeroDivisionError"]
    ELSE IF pos.position_type = "long"
         THEN [ret |-> "value",
               num |-> (current_price * pos.leverage
                          - pos.entry_price * (pos.leverage - 1)) * 100,
               den |-> current_price * pos.leverage]
         ELSE [ret |-> "value",
               num |-> (pos.entry_price * (pos.leverage + 1)
                          - current_price * pos.leverage) * 100,
               den |-> current_price * pos.leverage]

RECURSIVE liquidation_scan(_, _, _)
\* The loop of check_liquidation_risk over the positions, in order.
liquidation_scan(positions, pair, current_price) ==
    IF positions = << >> THEN [ret |-> "None"]
    ELSE LET pos == Head(positions)
         IN  IF pos.pair # pair \/ pos.leverage <= 1
             THEN liquidation_scan(Tail(positions), pair, current_price)
             ELSE IF pos.position_type \in {"long", "short"}
                  THEN distance_pct(pos, current_price)
                  ELSE liquidation_scan(Tail(positions), pair, current_price)

\* check_liquidation_risk reads open_positions and assigns nothing.
check_liquidation_risk(pair, current_price) ==
    liquidation_scan(open_positions, pair, current_price)

----------------------------------------------------------------------------
(* Construction.                                                           *)

Init ==
    /\ variant \in Variants
    /\ capital = starting_capital
    /\ binance_capital = 0
    /\ delta_capital = 0
    /\ open_positions = << >>
    /\ daily_pnl = 0
    /\ daily_pnl_by_pair = << >>
    /\ trade_results = << >>
    /\ is_paused = FALSE
    /\ pause_reason = ""
    /\ calls = {}
    /\ caller = [op |-> "none"]
    /\ Detached

----------------------------------------------------------------------------
(* The callers.  A strategy emits a signal, the executor asks               *)
(* approve_signal, places the order and, on a confirmed fill of an opening  *)
(* signal, calls record_open; a rejected signal, a failed order or an exit  *)
(* records nothing.  A close confirmation calls record_close with the       *)
(* realized P&L.                                                            *)

\* Whether a fill of the signal opens a position, as approve_signal classifies it.
OpensPosition(signal) ==
    IF variant = "multi" THEN is_opening(signal) ELSE signal.side = "buy"

\* 40% of the window: the least number of wins that keeps the breaker quiet.
MinWins == (WinRateWindow * WinRateMinPct) \div 100

\* Histories the model's closes produce: a run of losses, then wins only, the
\* run being empty, or just short enough, or just too long, for as many wins
\* to follow in the window as the breaker asks for; or losses only.
LossRuns == {0, WinRateWindow - MinWins, WinRateWindow - MinWins + 1}

RECURSIVE LeadingLosses(_)
LeadingLosses(h) ==
    IF h = << >> \/ Head(h) THEN 0 ELSE 1 + LeadingLosses(Tail(h))

HistoryAllowed(h) ==
    /\ Len(h) <= MaxResults
    /\ CountTrue(h) = Len(h) - LeadingLosses(h)
    /\ (CountTrue(h) > 0 => LeadingLosses(h) \in LossRuns)

\* Between the first result and the window's length the model only lets the
\* history grow: a close is of the first pair, by a $1 loss or break-even, on a
\* manager that holds no position, has no exchange balance set and has no
\* caller waiting.
Growing == Len(trade_results) \in 1..(WinRateWindow - 2)

\* Meanwhile no position is opened, no balance updated and no day ends.
Climbing == Len(trade_results) \in 2..(WinRateWindow - 2)

CloseAllowed(pair, pnl) ==
    /\ HistoryAllowed(Append(trade_results, pnl >= 0))
    /\ Growing =>
          /\ calls = {}
          /\ open_positions = << >>
          /\ binance_capital = 0 /\ delta_capital = 0
          /\ pair = "BTC/USDT"
          /\ pnl \in {-100, 0}

\* No caller is between approve_signal and its record_open, or between two
\* calls of its own.
Idle == calls = {} /\ caller.op = "none"

StrategySignal ==
    \E signal \in SignalsFor(variant) :
        /\ Idle
        /\ approve_signal(signal)
        /\ UNCHANGED <<caller, app_vars>>

Fill ==
    \E c \in calls :
        /\ c.ret = "True"
        /\ OpensPosition(c.signal)
        /\ ~Climbing
        /\ record_open(c.signal)
        /\ calls' = calls \ {c}
        /\ UNCHANGED <<caller, app_vars>>

Skip ==
    \E c \in calls :
        /\ calls' = calls \ {c}
        /\ UNCHANGED <<variant, capital, binance_capital, delta_capital,
                       open_positions, daily_pnl, daily_pnl_by_pair,
                       trade_results, is_paused, pause_reason, caller, app_vars>>

Close ==
    \E pair \in Pairs, pnl \in PnLs :
        /\ CloseAllowed(pair, pnl)
        /\ record_close(pair, pnl)
        /\ UNCHANGED <<calls, caller, app_vars>>

DailyReset ==
    /\ ~Climbing
    /\ reset_daily
    /\ UNCHANGED <<calls, caller, app_vars>>

Unpause ==
    /\ unpause
    /\ UNCHANGED <<calls, caller, app_vars>>

BalanceUpdate ==
    \E binance \in BinanceBalances, delta \in DeltaBalances :
        /\ Len(trade_results) <= 1
        /\ update_exchange_balances(binance, delta)
        /\ UNCHANGED <<calls, caller, app_vars>>

\* One event loop in which approve_signal and the record_open of the same
\* signal run without any other RiskManager call in between.
Next ==
    \/ StrategySignal
    \/ Fill
    \/ Skip
    \/ Idle /\ Close
    \/ Idle /\ DailyReset
    \/ Idle /\ Unpause
    \/ Idle /\ BalanceUpdate

Spec == Init /\ [][Next]_vars

\* The executor awaits the exchange between approve_signal and record_open:
\* a second strategy's signal, and any other call, may run in between.
ConcurrentSignal ==
    \E signal \in RaceSignals :
        /\ Cardinality(calls) < MaxCalls
        /\ approve_signal(signal)
        /\ UNCHANGED <<caller, app_vars>>

NextRace ==
    \/ ConcurrentSignal
    \/ Fill
    \/ Skip
    \/ Close
    \/ DailyReset
    \/ Unpause
    \/ BalanceUpdate

SpecRace == Init /\ [][NextRace]_vars

----------------------------------------------------------------------------
(* The operator and the monitoring callers.  The dashboard's pause command  *)
(* writes the pause fields; a monitor asks check_liquidation_risk and holds *)
(* the answer; a caller runs record_open and then record_close of the same  *)
(* signal, in whatever state the ledger is, remembering what it saw before. *)

OperatorPause ==
    \E params \in PauseParams :
        /\ Idle
        /\ pause_command(params)
        /\ UNCHANGED <<calls, caller, app_vars>>

LiquidationCheck ==
    \E pair \in Pairs, current_price \in CurrentPrices :
        /\ Idle
        /\ variant = "multi"
        /\ Len(trade_results) <= 1
        /\ caller' = [op |-> "check_liquidation_risk", pair |-> pair,
                      current_price |-> current_price,
                      result |-> check_liquidation_risk(pair, current_price)]
        /\ UNCHANGED <<variant, capital, binance_capital, delta_capital,
                       open_positions, daily_pnl, daily_pnl_by_pair,
                       trade_results, is_paused, pause_reason, calls, app_vars>>

RoundTripOpen ==
    \E signal \in SignalsFor(variant) :
        /\ Idle
        /\ trade_results = << >>
        /\ record_open(signal)
        /\ caller' = [op |-> "record_open", signal |-> signal,
                      positions |-> open_positions, capital |-> capital]
        /\ UNCHANGED <<calls, app_vars>>

RoundTripClose ==
    \E pnl \in PnLs :
        /\ caller.op = "record_open"
        /\ HistoryAllowed(Append(trade_results, pnl >= 0))
        /\ record_close(caller.signal.pair, pnl)
        /\ caller' = [op |-> "record_close", signal |-> caller.signal,
                      positions |-> caller.positions,
                      capital |-> caller.capital, pnl |-> pnl]
        /\ UNCHANGED <<calls, app_vars>>

CallerDone ==
    /\ caller.op \in {"check_liquidation_risk", "record_close"}
    /\ caller' = [op |-> "none"]
    /\ UNCHANGED <<variant, capital, binance_capital, delta_capital,
                   open_positions, daily_pnl, daily_pnl_by_pair,
                   trade_results, is_paused, pause_reason, calls, app_vars>>

NextOps ==
    \/ StrategySignal
    \/ Fill
    \/ Skip
    \/ Idle /\ Close
    \/ Idle /\ DailyReset
    \/ Idle /\ Unpause
    \/ Idle /\ BalanceUpdate
    \/ OperatorPause
    \/ LiquidationCheck
    \/ RoundTripOpen
    \/ RoundTripClose
    \/ CallerDone

SpecOps == Init /\ [][NextOps]_vars

----------------------------------------------------------------------------
(* A close whose loss is the whole capital: record_close takes any pnl, and *)
(* the losses of a day can add up to everything the manager has.            *)

Ruin ==
    \E pair \in Pairs :
        /\ trade_results = << >>
        /\ capital > 0
        /\ record_close(pair, -capital)
        /\ UNCHANGED <<calls, caller, app_vars>>

NextRuin ==
    \/ StrategySignal
    \/ Fill
    \/ Skip
    \/ Idle /\ Close
    \/ Idle /\ DailyReset
    \/ Idle /\ Unpause
    \/ Idle /\ BalanceUpdate
    \/ Idle /\ Ruin

SpecRuin == Init /\ [][NextRuin]_vars

----------------------------------------------------------------------------
(* The leverage of a futures position is the signal.leverage record_open    *)
(* stored, and the strategies take it from their configuration.  The same   *)
(* ledger recorded under another configured leverage differs in that field  *)
(* only.                                                                    *)

Leverages == {1, 5, 10}

Releverage ==
    \E i \in 1..Len(open_positions), leverage \in Leverages :
        /\ variant = "multi"
        /\ IsFutures(open_positions[i])
        /\ leverage # open_positions[i].leverage
        /\ open_positions' = [open_positions EXCEPT ![i].leverage = leverage]
        /\ UNCHANGED <<variant, capital, binance_capital, delta_capital,
                       daily_pnl, daily_pnl_by_pair, trade_results, is_paused,
                       pause_reason, calls, caller, app_vars>>

\* The win-rate window plays no part here: the day's closes stop at two.
NextTwin ==
    \/ StrategySignal
    \/ Fill
    \/ Skip
    \/ Idle /\ Len(trade_results) <= 1 /\ Close
    \/ Idle /\ DailyReset
    \/ Idle /\ Unpause
    \/ Idle /\ BalanceUpdate
    \/ Idle /\ Releverage

\* The engine's RiskManager, the only one whose positions carry a leverage.
InitTwin == Init /\ variant = "multi"

SpecTwin == InitTwin /\ [][NextTwin]_vars

----------------------------------------------------------------------------
(* The liquidation monitor over ledgers of futures and spot positions:      *)
(* record_open stores whatever filled, and the monitor asks about a pair at *)
(* the current price.                                                       *)

\* At most this many positions in the monitored ledger.
MaxLedger == 3

\* Filled entries: a 10x long and a 5x short at $100 on one pair, a 1x long on
\* it, a spot buy of it, and a 5x long on the other pair.
LiqSignals ==
    { Sig("BTC/USDT", "buy",  100, 5,    "long",  10, "delta", FALSE, "futures_momentum"),
      Sig("BTC/USDT", "sell", 100, 5,    "short", 5,  "delta", FALSE, "futures_momentum"),
      Sig("BTC/USDT", "buy",  100, 5,    "long",  1,  "delta", FALSE, "futures_momentum"),
      Sig("BTC/USDT", "buy",  10,  2500, "spot",  1,  "binance", FALSE, "scalp"),
      Sig("ETH/USDT", "buy",  100, 5,    "long",  5,  "delta", FALSE, "futures_momentum") }

LedgerOpen ==
    \E signal \in LiqSignals :
        /\ Idle
        /\ Len(open_positions) < MaxLedger
        /\ record_open(signal)
        /\ UNCHANGED <<calls, caller, app_vars>>

NextLiq ==
    \/ LedgerOpen
    \/ LiquidationCheck
    \/ CallerDone

SpecLiq == InitTwin /\ [][NextLiq]_vars

----------------------------------------------------------------------------
(* The engine's RiskManager used as the single-exchange one: one pool, set  *)
(* to the capital by update_exchange_balances(capital, 0) before the first  *)
(* signal, and spot signals only.                                           *)

InitPair ==
    /\ variant = "multi"
    /\ capital = starting_capital
    /\ binance_capital = starting_capital
    /\ delta_capital = 0
    /\ open_positions = << >>
    /\ daily_pnl = 0
    /\ daily_pnl_by_pair = << >>
    /\ trade_results = << >>
    /\ is_paused = FALSE
    /\ pause_reason = ""
    /\ calls = {}
    /\ caller = [op |-> "none"]
    /\ Detached

SpotSignal ==
    \E signal \in SignalsFor("single") :
        /\ Idle
        /\ approve_signal(signal)
        /\ UNCHANGED <<caller, app_vars>>

\* A close by any pnl of the model; the history stays within the window.
PairClose ==
    \E pair \in Pairs, pnl \in PnLs :
        /\ Len(trade_results) < 3
        /\ record_close(pair, pnl)
        /\ UNCHANGED <<calls, caller, app_vars>>

NextPair ==
    \/ SpotSignal
    \/ Fill
    \/ Skip
    \/ Idle /\ PairClose
    \/ Idle /\ DailyReset
    \/ Idle /\ Unpause

SpecPair == InitPair /\ [][NextPair]_vars

----------------------------------------------------------------------------
(* A third pair: more pairs are traded than positions may be held, so the   *)
(* concurrency cap, not the one-per-pair rule, is what stops the next entry.*)

CapSignals ==
    Signals \cup
        { Sig("SOL/USDT", "buy", 10, 1000, "spot", 1, "binance", FALSE, "scalp") }

CapSignal ==
    \E signal \in CapSignals :
        /\ Idle
        /\ variant = "single" => signal.position_type = "spot"
        /\ approve_signal(signal)
        /\ UNCHANGED <<caller, app_vars>>

\* The cap does not look at the result history: the day's closes stop at two.
NextCap ==
    \/ CapSignal
    \/ Fill
    \/ Skip
    \/ Idle /\ Len(trade_results) <= 1 /\ Close
    \/ Idle /\ DailyReset
    \/ Idle /\ Unpause
    \/ Idle /\ BalanceUpdate

SpecCap == Init /\ [][NextCap]_vars

----------------------------------------------------------------------------
(* One critical section per pair: between the approve_signal and the        *)
(* record_open of a signal no other signal of the same pair is served, but  *)
(* the strategies of other pairs are.                                       *)

PerPairSignal ==
    \E signal \in CapSignals :
        /\ caller.op = "none"
        /\ Cardinality(calls) < MaxCalls
        /\ \A c \in calls : c.signal.pair # signal.pair
        /\ variant = "single" => signal.position_type = "spot"
        /\ approve_signal(signal)
        /\ UNCHANGED <<caller, app_vars>>

NextPerPair ==
    \/ PerPairSignal
    \/ Fill
    \/ Skip
    \/ Idle /\ Len(trade_results) <= 1 /\ Close
    \/ Idle /\ DailyReset
    \/ Idle /\ Unpause

SpecPerPair == Init /\ [][NextPerPair]_vars

----------------------------------------------------------------------------
(* The quantities the claims speak of, written from their statements.      *)

\* The calls that returned in this step.
Returned == calls' \ calls

\* abs(min(daily_pnl, 0))
LossToday == IF daily_pnl < 0 THEN -daily_pnl ELSE 0

\* daily_loss_pct >= daily_loss_limit_pct, daily_loss_pct being
\* abs(min(daily_pnl, 0)) / capital * 100, and 0 when capital is 0.
DailyLossAtLimit ==
    \/ capital > 0 /\ LossToday * 100 >= daily_loss_limit_pct * capital
    \/ capital < 0 /\ LossToday * 100 <= daily_loss_limit_pct * capital

\* The number of wins among the most recent 20 results.
RecentWins ==
    Cardinality({i \in 1..Len(trade_results) :
                    i > Len(trade_results) - 20 /\ trade_results[i]})

\* At least 20 results recorded and fewer than 40% of the last 20 are wins.
WinRateTooLow == Len(trade_results) >= 20 /\ RecentWins * 100 < 40 * 20

\* (spot and side = buy) or (futures and not reduce_only)
Opening(signal) ==
    \/ signal.position_type = "spot" /\ signal.side = "buy"
    \/ signal.position_type \in {"long", "short"} /\ ~signal.reduce_only

PairIsOpen(pair) == \E i \in 1..Len(open_positions) : open_positions[i].pair = pair

\* Sum over the open positions of entry_price * amount.
Exposure ==
    LET value[i \in 0..Len(open_positions)] ==
            IF i = 0 THEN 0
            ELSE value[i - 1]
                 + open_positions[i].entry_price * open_positions[i].amount
    IN  value[Len(open_positions)]

\* The capital pool of the signal's exchange if it is set, else the total.
PoolOf(signal) ==
    LET pool == IF signal.exchange_id = "delta" THEN delta_capital
                ELSE binance_capital
    IN  IF variant = "multi" /\ pool > 0 THEN pool ELSE capital

\* price * amount > max_value * 1.05, max_value = pool * (max_position_pct / 100)
OverSizeLimit(signal) ==
    signal.price * signal.amount * 10000 > PoolOf(signal) * max_position_pct * 105

\* (total_exposure + price * amount) / capital * 100 > max_total_exposure_pct
OverExposureCap(signal) ==
    \/ capital > 0
       /\ (Exposure + signal.price * signal.amount) * 100
            > max_total_exposure_pct * capital
    \/ capital < 0
       /\ (Exposure + signal.price * signal.amount) * 100
            < max_total_exposure_pct * capital

\* Checks 1-3 pass: not paused, no breaker breached.
Healthy == ~is_paused /\ ~DailyLossAtLimit /\ ~WinRateTooLow

\* Checks 1-5 pass.
PassesChecks1to5(signal) ==
    /\ Healthy
    /\ ~(Opening(signal) /\ Len(open_positions) >= max_concurrent)
    /\ ~(Opening(signal) /\ PairIsOpen(signal.pair))

PassesChecks1to6(signal) == PassesChecks1to5(signal) /\ ~OverSizeLimit(signal)

----------------------------------------------------------------------------
(* approve_signal: frame, pause gate and circuit breakers.                 *)

\* C1: approve_signal changes none of capital, the per-exchange pools,
\* open_positions, daily_pnl, daily_pnl_by_pair and trade_results; it changes
\* is_paused / pause_reason only by pausing an unpaused manager whose
\* daily-loss or win-rate breaker is breached; a rejection by the concurrency
\* cap, the one-per-pair rule, the size limit or the exposure cap leaves the
\* manager unpaused.
C1_ApproveFrame ==
    [][\A c \in Returned :
          /\ UNCHANGED <<capital, binance_capital, delta_capital, open_positions,
                         daily_pnl, daily_pnl_by_pair, trade_results>>
          /\ <<is_paused', pause_reason'>> # <<is_paused, pause_reason>> =>
                /\ ~is_paused /\ is_paused'
                /\ DailyLossAtLimit \/ WinRateTooLow
          /\ c.rule \in {"max_concurrent", "pair", "size", "exposure"} =>
                /\ ~is_paused'
                /\ pause_reason' = pause_reason]_vars

\* A full ledger has just made the concurrency cap reject an entry, and the
\* manager is not paused.
C1_Witness ==
    \E c \in calls :
        /\ c.rule = "max_concurrent"
        /\ Len(open_positions) = max_concurrent
        /\ ~is_paused

\* C2: while is_paused is true approve_signal returns false for every signal
\* and leaves is_paused and pause_reason as they are.
C2_PausedRejectsAll ==
    [][is_paused =>
          \A c \in Returned :
              /\ c.ret = "False"
              /\ is_paused'
              /\ pause_reason' = pause_reason]_vars

\* A reduce-only close has just been refused by a paused manager that holds
\* a position.
C2_Witness ==
    \E c \in calls :
        /\ c.signal.reduce_only
        /\ c.ret = "False"
        /\ c.rule = "paused"
        /\ is_paused
        /\ open_positions # << >>

\* C3: on an unpaused manager with daily_loss_pct >= daily_loss_limit_pct,
\* approve_signal returns false for every signal and leaves the manager
\* paused with a reason that marks a daily-loss trigger.
C3_DailyLossBreaker ==
    [][(~is_paused /\ DailyLossAtLimit) =>
          \A c \in Returned :
              /\ c.ret = "False"
              /\ is_paused'
              /\ pause_reason' = "daily loss limit reached"]_vars

\* The breaker has just fired with the loss exactly at the limit and the
\* ledger full.
C3_Witness ==
    \E c \in calls :
        /\ c.rule = "daily_loss"
        /\ is_paused
        /\ LossToday * 100 = daily_loss_limit_pct * capital
        /\ Len(open_positions) = max_concurrent

\* C4: with exactly 20 results of which fewer than 8 are wins, the next
\* approve_signal returns false and leaves is_paused true; with fewer than 20
\* results the win-rate breaker does not fire.
C4_WinRateBreaker ==
    [][\A c \in Returned :
          /\ (Len(trade_results) = 20 /\ RecentWins < 8) =>
                (c.ret = "False" /\ is_paused')
          /\ Len(trade_results) < 20 =>
                /\ c.rule # "win_rate"
                /\ pause_reason' = "win rate too low" =>
                      pause_reason = "win rate too low"]_vars

\* The breaker has just fired on 20 results with 7 wins.
C4_Witness ==
    \E c \in calls :
        /\ c.rule = "win_rate"
        /\ is_paused
        /\ Len(trade_results) = 20
        /\ RecentWins = 7

----------------------------------------------------------------------------
(* approve_signal: concurrency cap and one position per pair.              *)

\* C5 (as stated): for every signal with side = buy, and for every opening
\* futures signal, approve_signal returns false when len(open_positions)
\* equals max_concurrent, whatever the signal's other fields, in both variants.
C5_EveryBuyRejectedAtCap ==
    [][Len(open_positions) = max_concurrent =>
          \A c \in Returned :
              (c.signal.side = "buy" \/ Opening(c.signal)) => c.ret = "False"]_vars

\* C5 (amended): for every opening signal (a spot buy, or a futures signal
\* that is not reduce-only; in the spot-only variant every buy),
\* approve_signal returns false when len(open_positions) equals
\* max_concurrent; a reduce-only buy is not held back by the cap.
C5_OpeningRejectedAtCap ==
    [][Len(open_positions) = max_concurrent =>
          \A c \in Returned :
              /\ Opening(c.signal) => c.ret = "False"
              /\ (variant = "single" /\ c.signal.side = "buy") => c.ret = "False"
              /\ c.rule = "max_concurrent" => Opening(c.signal)]_vars

\* With the ledger full and the manager healthy, a futures entry has been
\* rejected by the cap.
C5_Witness ==
    \E c \in calls :
        /\ c.rule = "max_concurrent"
        /\ c.signal.position_type = "long"
        /\ ~c.signal.reduce_only
        /\ Len(open_positions) = max_concurrent
        /\ Healthy

\* C6: for a pair that already has an open position, approve_signal returns
\* false for every opening signal on that pair.
C6_OnePerPair ==
    [][\A c \in Returned :
          (PairIsOpen(c.signal.pair) /\ Opening(c.signal)) => c.ret = "False"]_vars

\* Below the cap, an entry on a held pair has been rejected by the
\* one-per-pair rule.
C6_Witness ==
    \E c \in calls :
        /\ c.rule = "pair"
        /\ PairIsOpen(c.signal.pair)
        /\ Len(open_positions) < max_concurrent
        /\ Healthy

\* C7: when record_open runs only for an opening signal, immediately after
\* approve_signal returned true for it, open_positions never holds two
\* positions of the same pair.
C7_OnePositionPerPair ==
    \A i, j \in 1..Len(open_positions) :
        open_positions[i].pair = open_positions[j].pair => i = j

\* After a close, the ledger is full again and holds two different pairs.
C7_Witness ==
    /\ Len(open_positions) = max_concurrent
    /\ open_positions[1].pair # open_positions[2].pair
    /\ trade_results # << >>

\* C8: without atomicity of approve_signal and record_open, two callers can
\* both hold an approval for the same pair, and record_open accepts each of
\* them whatever the ledger holds, so two positions of one pair are reachable.
C8_RecordOpenNeverRejects ==
    \A c \in calls :
        (c.ret = "True" /\ OpensPosition(c.signal)) =>
            ENABLED (record_open(c.signal) /\ calls' = calls \ {c}
                                           /\ UNCHANGED <<caller, app_vars>>)

\* Two positions of the same pair are open.
C8_Witness ==
    \E i, j \in 1..Len(open_positions) :
        /\ i # j
        /\ open_positions[i].pair = open_positions[j].pair
        /\ open_positions[i].strategy # open_positions[j].strategy

----------------------------------------------------------------------------
(* approve_signal: position size limit and total exposure cap.             *)

C10_ExposureCap ==
    [][\A c \in Returned :
          /\ (PassesChecks1to6(c.signal) /\ Opening(c.signal) /\ capital # 0) =>
                /\ OverExposureCap(c.signal) <=> c.ret = "False"
                /\ ~OverExposureCap(c.signal) <=> c.ret = "True"
          /\ ~Opening(c.signal) => c.rule # "exposure"
          /\ (PassesChecks1to6(c.signal) /\ ~Opening(c.signal)) => c.ret = "True"
          /\ (/\ max_total_exposure_pct = 60
              /\ capital = 100000
              /\ Len(open_positions) = 1
              /\ Exposure = 50000
              /\ Healthy
              /\ c.signal.side = "buy"
              /\ Opening(c.signal)
              /\ c.signal.price * c.signal.amount = 15000) =>
                c.ret = "False"]_vars

\* With capital 1000 and one spot position worth 500, the buy worth 150 on
\* the other pair has been rejected by the exposure cap.
C10_Witness ==
    \E c \in calls :
        /\ c.rule = "exposure"
        /\ c.ret = "False"
        /\ c.signal.price * c.signal.amount = 15000
        /\ capital = 100000
        /\ Len(open_positions) = 1
        /\ Exposure = 50000
        /\ Healthy

----------------------------------------------------------------------------
(* Pause state: who sets it and who clears it.                             *)

\* The reason text contains the words "daily loss".
SaysDailyLoss(reason) ==
    reason \in {"daily loss limit reached", "manual stop after daily loss"}

\* Only the pause fields change in the step.
OnlyPauseChanges ==
    UNCHANGED <<capital, binance_capital, delta_capital, open_positions,
                daily_pnl, daily_pnl_by_pair, trade_results>>

\* C11: in every reachable state is_paused is true exactly when pause_reason
\* is non-empty, after any sequence of approve_signal, unpause, reset_daily
\* and dashboard pause / resume / force_strategy commands.
C11_PausedIffReason == is_paused <=> pause_reason # ""

\* The manager is paused and its pause reason is the empty text.
C11_Witness == is_paused /\ pause_reason = ""

C13_ResetClearsOnlyBreakerPause ==
    [][(is_paused /\ reset_daily) =>
          (~is_paused' <=> pause_reason = "daily loss limit reached")]_vars

----------------------------------------------------------------------------
(* Effects of reset_daily, record_close and record_open.                   *)

\* C14: reset_daily() sets daily_pnl to 0 and empties daily_pnl_by_pair, and
\* leaves trade_results, open_positions, capital and the per-exchange pools
\* unchanged, in every state.
C14_ResetDailyFrame ==
    [][reset_daily =>
          /\ daily_pnl' = 0
          /\ DOMAIN daily_pnl_by_pair' = {}
          /\ UNCHANGED <<trade_results, open_positions, capital,
                         binance_capital, delta_capital>>]_vars

\* A day has been reset after a losing close, with a position still open.
C14_Witness ==
    /\ daily_pnl = 0
    /\ DOMAIN daily_pnl_by_pair = {}
    /\ trade_results # << >>
    /\ open_positions # << >>
    /\ capital < starting_capital

\* The positions of `pair`, by index.
IndicesOf(pair) == {i \in 1..Len(open_positions) : open_positions[i].pair = pair}

\* The ledger without its k-th position.
WithoutIndex(k) ==
    [i \in 1..(Len(open_positions) - 1) |->
        IF i < k THEN open_positions[i] ELSE open_positions[i + 1]]

\* C15: record_close(pair, pnl) adds pnl to capital, to daily_pnl and to
\* daily_pnl_by_pair[pair] (from 0 for a new pair), appends (pnl >= 0) to
\* trade_results and removes exactly the first position of that pair, keeping
\* every other position in order; is_paused and the pools do not change.
C15_RecordCloseEffect ==
    [][\A pair \in Pairs, pnl \in PnLs :
          record_close(pair, pnl) =>
              /\ capital' = capital + pnl
              /\ daily_pnl' = daily_pnl + pnl
              /\ DOMAIN daily_pnl_by_pair' = DOMAIN daily_pnl_by_pair \cup {pair}
              /\ daily_pnl_by_pair'[pair] =
                    pnl + (IF pair \in DOMAIN daily_pnl_by_pair
                           THEN daily_pnl_by_pair[pair] ELSE 0)
              /\ \A p \in DOMAIN daily_pnl_by_pair \ {pair} :
                    daily_pnl_by_pair'[p] = daily_pnl_by_pair[p]
              /\ Len(trade_results') = Len(trade_results) + 1
              /\ \A i \in 1..Len(trade_results) : trade_results'[i] = trade_results[i]
              /\ trade_results'[Len(trade_results) + 1] = (pnl >= 0)
              /\ IF IndicesOf(pair) = {}
                 THEN open_positions' = open_positions
                 ELSE \E k \in IndicesOf(pair) :
                         /\ \A j \in IndicesOf(pair) : k <= j
                         /\ open_positions' = WithoutIndex(k)
              /\ UNCHANGED <<is_paused, pause_reason, binance_capital,
                             delta_capital>>]_vars

\* One of two positions of the same pair has been closed at a loss: the one
\* opened second is still there.
C15_Witness ==
    /\ Len(open_positions) = 1
    /\ open_positions[1].strategy = "momentum"
    /\ trade_results = <<FALSE>>
    /\ DOMAIN daily_pnl_by_pair = {"BTC/USDT"}
    /\ daily_pnl_by_pair["BTC/USDT"] = -5000
    /\ capital = starting_capital - 5000

\* C16: record_open(signal) appends exactly one Position built from the
\* signal's fields at the end of open_positions and changes nothing else;
\* capital changes only in record_close and in balance updates.
C16_RecordOpenEffect ==
    [][/\ \A signal \in Signals :
              record_open(signal) =>
                  /\ Len(open_positions') = Len(open_positions) + 1
                  /\ \A i \in 1..Len(open_positions) :
                        open_positions'[i] = open_positions[i]
                  /\ LET new == open_positions'[Len(open_positions) + 1]
                     IN  /\ new.pair = signal.pair
                         /\ new.side = signal.side
                         /\ new.entry_price = signal.price
                         /\ new.amount = signal.amount
                         /\ new.strategy = signal.strategy
                         /\ variant = "multi" =>
                               /\ new.exchange = signal.exchange_id
                               /\ new.leverage = signal.leverage
                               /\ new.position_type = signal.position_type
                  /\ UNCHANGED <<capital, binance_capital, delta_capital,
                                 daily_pnl, daily_pnl_by_pair, trade_results,
                                 is_paused, pause_reason>>
       /\ capital' # capital =>
              \/ Len(trade_results') = Len(trade_results) + 1
              \/ capital' = binance_capital' + delta_capital']_vars

\* A caller has just recorded the open of a leveraged futures entry on a
\* ledger that already held a position.
C16_Witness ==
    /\ caller.op = "record_open"
    /\ caller.signal.leverage = 5
    /\ caller.positions # << >>
    /\ Len(open_positions) = Len(caller.positions) + 1

----------------------------------------------------------------------------
(* record_open followed by record_close of the same signal.                *)

\* The ledger the caller saw before its record_open held the signal's pair.
HeldBefore ==
    \E i \in 1..Len(caller.positions) :
        caller.positions[i].pair = caller.signal.pair

\* C17 (as stated): for every state and every signal, record_open(signal)
\* followed by record_close(signal.pair, pnl) leaves open_positions equal to
\* its value before the record_open and changes capital by exactly pnl.
C17_RoundTripRestores ==
    caller.op = "record_close" =>
        /\ open_positions = caller.positions
        /\ capital = caller.capital + caller.pnl

\* C17 (amended): the round trip changes capital by exactly pnl in every
\* state; it restores open_positions when the signal's pair had no open
\* position before; when the pair was already held, the older position of
\* the pair is the one removed and the new one stays, at the end.
C17_RoundTripRestoresFreePair ==
    caller.op = "record_close" =>
        /\ capital = caller.capital + caller.pnl
        /\ ~HeldBefore => open_positions = caller.positions
        /\ HeldBefore =>
              /\ Len(open_positions) = Len(caller.positions)
              /\ open_positions[Len(open_positions)].pair = caller.signal.pair
              /\ open_positions[Len(open_positions)].amount = caller.signal.amount
              /\ open_positions[Len(open_positions)].side = caller.signal.side

\* A round trip on a free pair has ended at a loss, on a ledger that holds
\* another pair.
C17_Witness ==
    /\ caller.op = "record_close"
    /\ caller.pnl < 0
    /\ caller.positions # << >>
    /\ ~HeldBefore
    /\ open_positions = caller.positions

----------------------------------------------------------------------------
(* The result history, win_rate and daily_loss_pct.                        *)

\* C18: trade_results is a bounded history of at most 20 entries, the oldest
\* being dropped when a 21st result is recorded.
C18_HistoryBounded == Len(trade_results) <= 20

\* A 21st result has been recorded and the first one is still there.
C18_Witness == Len(trade_results) = 21 /\ ~trade_results[1]

\* The min(n, 20) most recent results.
Last20 ==
    LET n == Len(trade_results)
        m == IF n < 20 THEN n ELSE 20
    IN  [i \in 1..m |-> trade_results[n - m + i]]

WinsIn(results) == Cardinality({i \in 1..Len(results) : results[i]})

\* C19: win_rate is 100 when no result is recorded and otherwise the
\* percentage of wins among the min(n, 20) most recent results, so that it,
\* and the win-rate breaker's decision, depend on the last 20 results only.
C19_WinRateOfLast20 ==
    /\ trade_results = << >> => win_rate[1] = 100 * win_rate[2]
    /\ trade_results # << >> =>
          /\ win_rate[2] > 0
          /\ win_rate[1] * Len(Last20) = 100 * WinsIn(Last20) * win_rate[2]
    /\ WinRateBreached <=>
          (Len(trade_results) >= 20 /\ 100 * WinsIn(Last20) < 40 * Len(Last20))

\* 21 results whose last 20 hold 8 wins (40%) while all 21 hold 8 wins (38%):
\* a signal has been approved.
C19_Witness ==
    /\ Len(trade_results) = 21
    /\ ~trade_results[1]
    /\ WinsIn(Last20) = 8
    /\ WinsIn(trade_results) = 8
    /\ \E c \in calls : c.ret = "True"

\* A percentage with both terms in dollars (every amount of the model is a
\* whole number of dollars) and a positive denominator.
InDollars(f) ==
    LET g == IF f[2] % 100 = 0 /\ f[2] # 0
             THEN <<f[1] \div 100, f[2] \div 100>> ELSE f
    IN  IF g[2] < 0 THEN <<-g[1], -g[2]>> ELSE g

PctLower(f, g) == InDollars(f)[1] * InDollars(g)[2] < InDollars(g)[1] * InDollars(f)[2]

LosingClose == \E pair \in Pairs, pnl \in PnLs : pnl < 0 /\ record_close(pair, pnl)

\* C20 (as stated): across record_close calls with pnl < 0, daily_loss_pct
\* never decreases from one call to the next, and immediately after
\* reset_daily() it is 0.
C20_DailyLossMonotone ==
    [][/\ LosingClose => ~PctLower(daily_loss_pct', daily_loss_pct)
       /\ reset_daily => daily_loss_pct'[1] = 0]_vars

\* C20 (amended): across record_close calls with pnl < 0 that leave capital
\* positive, daily_loss_pct never decreases; a loss that takes capital to 0
\* or below takes daily_loss_pct to 0 or below; immediately after
\* reset_daily() it is 0.
C20_DailyLossMonotoneWhileSolvent ==
    [][/\ (LosingClose /\ capital' > 0) =>
              ~PctLower(daily_loss_pct', daily_loss_pct)
       /\ (LosingClose /\ capital' <= 0) =>
              (daily_loss_pct'[1] = 0 \/ daily_loss_pct'[2] < 0)
       /\ reset_daily => daily_loss_pct'[1] = 0]_vars

\* Two losses in a row have been recorded on the same day.
C20_Witness ==
    /\ trade_results = <<FALSE, FALSE>>
    /\ daily_pnl = -5100
    /\ capital = starting_capital - 5100

----------------------------------------------------------------------------
(* Capital at zero, exposure accounting, leverage.                         *)

\* C21: once capital is 0 (losses booked by record_close can bring it there),
\* total_exposure_pct and daily_loss_pct evaluate to 0 and approve_signal
\* returns True or False, never a division error, for every signal whose price
\* and amount are positive, in both variants and whatever positions are open.
C21_ZeroCapitalIsSafe ==
    [][capital = 0 =>
          /\ total_exposure_pct[1] = 0
          /\ daily_loss_pct[1] = 0
          /\ \A c \in Returned :
                (c.signal.price > 0 /\ c.signal.amount > 0)
                    => c.ret \in {"True", "False"}]_vars

\* The single-pool manager has lost everything while holding a position, and
\* has answered a buy: the size limit of 0 rejected it.
C21_Witness ==
    /\ variant = "single"
    /\ capital = 0
    /\ open_positions # << >>
    /\ \E c \in calls : c.signal.side = "buy" /\ c.ret = "False" /\ c.rule = "size"

\* C22: every open position contributes entry_price * amount to
\* total_exposure whatever its leverage and position_type, and
\* entry_price * amount * leverage to futures_notional when it is a long or a
\* short: a futures position at price 100, amount 0.05, leverage 5 adds 5 to
\* total_exposure and 25 to futures_notional; and spot_exposure +
\* futures_exposure = total_exposure whenever every position is a spot, a long
\* or a short.
C22_ExposureAccounting ==
    [][\A signal \in Signals :
          record_open(signal) =>
              /\ total_exposure' = total_exposure + signal.price * signal.amount
              /\ variant = "multi" =>
                    /\ futures_notional' =
                          futures_notional
                          + (IF signal.position_type \in {"long", "short"}
                             THEN signal.price * signal.amount * signal.leverage
                             ELSE 0)
                    /\ (\A i \in 1..Len(open_positions') :
                           open_positions'[i].position_type
                               \in {"spot", "long", "short"})
                          => spot_exposure' + futures_exposure' = total_exposure']_vars

\* The long at price 100, amount 0.05 (5 hundredths), leverage 5 is held next
\* to a spot position: it stands for $5 of exposure and $25 of notional.
C22_Witness ==
    /\ variant = "multi"
    /\ Len(open_positions) = 2
    /\ \E i \in 1..2 :
          /\ open_positions[i].position_type = "long"
          /\ open_positions[i].entry_price = 100
          /\ open_positions[i].amount = 5
          /\ open_positions[i].leverage = 5
    /\ futures_exposure = 500
    /\ futures_notional = 2500
    /\ spot_exposure > 0
    /\ total_exposure = spot_exposure + 500

\* Two states that differ at most in the leverage of the open positions.
SameButLeverage ==
    /\ variant = "multi"
    /\ Len(open_positions') = Len(open_positions)
    /\ \A i \in 1..Len(open_positions) :
          [open_positions'[i] EXCEPT !.leverage = open_positions[i].leverage]
              = open_positions[i]
    /\ UNCHANGED <<variant, capital, binance_capital, delta_capital, daily_pnl,
                   daily_pnl_by_pair, trade_results, is_paused, pause_reason>>

\* What a run of approve_signal returns and the pause state it reaches.
Answer(outcome) == <<outcome.ret, outcome.paused, outcome.reason>>

\* C23: leverage never influences the approval decision: from two states that
\* differ only in the leverage of the open positions, approve_signal on two
\* signals that differ only in signal.leverage returns the same result and
\* leaves the same pause state.
C23_LeverageBlind ==
    [][SameButLeverage =>
          \A signal \in Signals, leverage \in Leverages :
              Answer(approve_outcome(signal))
                = Answer(approve_outcome([signal EXCEPT !.leverage = leverage]))']_vars

\* The long recorded at leverage 5 is held at leverage 10 in the other run, next
\* to a spot position, on a manager that can still approve.
C23_Witness ==
    /\ variant = "multi"
    /\ ~is_paused
    /\ Len(open_positions) = 2
    /\ \E i \in 1..2 :
          /\ open_positions[i].position_type = "long"
          /\ open_positions[i].leverage = 10
    /\ \E c \in calls : c.ret = "True"

----------------------------------------------------------------------------
(* Liquidation distance.                                                   *)

\* The open positions on `pair` that are a long or a short with leverage > 1.
LeveragedOn(pair) ==
    {i \in 1..Len(open_positions) :
        /\ open_positions[i].pair = pair
        /\ open_positions[i].position_type \in {"long", "short"}
        /\ open_positions[i].leverage > 1}

FirstOf(S) == CHOOSE i \in S : \A j \in S : i <= j

\* result = (price - entry * (1 - 1/L)) / price * 100 for a long and
\* (entry * (1 + 1/L) - price) / price * 100 for a short; both sides of the
\* equation are multiplied by price * L.
IsDistanceOf(result, pos, price) ==
    /\ result.ret = "value"
    /\ IF pos.position_type = "long"
       THEN result.num * price * pos.leverage
              = (price * pos.leverage - pos.entry_price * (pos.leverage - 1))
                  * 100 * result.den
       ELSE result.num * price * pos.leverage
              = (pos.entry_price * (pos.leverage + 1) - price * pos.leverage)
                  * 100 * result.den

\* C24: check_liquidation_risk(pair, price) returns None when no open position
\* on the pair is a long or a short with leverage > 1; otherwise, for the first
\* such position and a price above 0, it returns
\* (price - entry * (1 - 1/L)) / price * 100 for a long and
\* (entry * (1 + 1/L) - price) / price * 100 for a short; it changes no state.
C24_LiquidationDistance ==
    [][(caller.op = "none" /\ caller'.op = "check_liquidation_risk") =>
          /\ UNCHANGED rm_vars
          /\ LeveragedOn(caller'.pair) = {}
                => caller'.result.ret = "None"
          /\ (LeveragedOn(caller'.pair) # {} /\ caller'.current_price > 0)
                => IsDistanceOf(caller'.result,
                                open_positions[FirstOf(LeveragedOn(caller'.pair))],
                                caller'.current_price)]_vars

\* Behind a spot position and a 1x long of the pair, the 10x long entered at 100
\* comes before the 5x short; at price 95 the monitor holds (95 - 90) / 95 * 100.
C24_Witness ==
    /\ caller.op = "check_liquidation_risk"
    /\ caller.pair = "BTC/USDT"
    /\ caller.current_price = 95
    /\ Len(open_positions) = 3
    /\ open_positions[1].leverage = 1
    /\ open_positions[2].position_type = "long"
    /\ open_positions[2].entry_price = 100
    /\ open_positions[2].leverage = 10
    /\ open_positions[3].position_type = "short"
    /\ caller.result.ret = "value"
    /\ caller.result.num * 95 = (95 - 90) * 100 * caller.result.den

----------------------------------------------------------------------------
(* The capital pools and the two variants.                                 *)

\* C25: in every reachable state of the multi-exchange RiskManager capital is
\* the sum of the two exchange pools, binance_capital + delta_capital: at
\* construction, after update_exchange_balances and after every record_close.
C25_CapitalIsSumOfPools ==
    variant = "multi" => capital = binance_capital + delta_capital

\* The pools were set to $1000 and $0 and a close lost $50: capital is $950,
\* the pools still add up to $1000.
C25_Witness ==
    /\ variant = "multi"
    /\ binance_capital = 100000
    /\ delta_capital = 0
    /\ trade_results = <<FALSE>>
    /\ daily_pnl = -5000
    /\ capital = 95000

\* C26: the multi-exchange RiskManager subsumes the single-exchange one:
\* started with the same capital and limits, the one pool set to that capital,
\* and driven by the same calls on spot signals with leverage 1, both return
\* the same approve_signal results and stay in the same state after every
\* step.  The other operations assign the shared fields alike, so the two stay
\* together exactly as long as, in the state they share, the two approve_signal
\* give the same answer to every spot signal.
C26_MultiSubsumesSingle ==
    \A signal \in SignalsFor("single") :
        Answer(approve_multi(signal)) = Answer(approve_single(signal))

\* After a $1 loss the $315 exit is within 31.5% of the $1000 pool and beyond
\* 31.5% of the $999 capital.
C26_Witness ==
    /\ capital = 99900
    /\ binance_capital = 100000
    /\ ~is_paused
    /\ \E signal \in SignalsFor("single") :
          /\ signal.side = "sell"
          /\ approve_multi(signal).ret = "True"
          /\ approve_single(signal).ret = "False"

----------------------------------------------------------------------------
(* The order of the checks, exits, and closes without a position.          *)

\* A check after the breakers would reject the signal: the cap, the pair rule,
\* the size limit or the exposure cap.
FailsCapacity(signal) ==
    \/ Opening(signal) /\ Len(open_positions) >= max_concurrent
    \/ Opening(signal) /\ PairIsOpen(signal.pair)
    \/ OverSizeLimit(signal)
    \/ Opening(signal) /\ OverExposureCap(signal)

\* C27: the checks run in the stated order and the first one that fails
\* decides: with both breakers breached on an unpaused manager it is the
\* daily-loss reason that is recorded (so the following reset_daily lifts the
\* pause), and with a breaker breached together with a capacity failure the
\* manager ends paused.
C27_FirstFailingCheckDecides ==
    [][/\ \A c \in Returned :
             /\ (~is_paused /\ DailyLossAtLimit /\ WinRateTooLow)
                   => /\ c.ret = "False"
                      /\ is_paused'
                      /\ pause_reason' = PauseDailyLoss
             /\ (~is_paused /\ (DailyLossAtLimit \/ WinRateTooLow)
                   /\ FailsCapacity(c.signal))
                   => c.ret = "False" /\ is_paused'
       /\ (is_paused /\ pause_reason = PauseDailyLoss /\ reset_daily)
             => ~is_paused']_vars

\* Both breakers were breached, and the pair of an opening signal was held,
\* when the manager answered it: it is paused for the daily loss.
C27_Witness ==
    /\ DailyLossAtLimit
    /\ WinRateTooLow
    /\ is_paused
    /\ pause_reason = PauseDailyLoss
    /\ \E c \in calls :
          /\ c.ret = "False"
          /\ Opening(c.signal)
          /\ PairIsOpen(c.signal.pair)

\* C28: a signal that opens no position (a spot sell, a reduce-only futures
\* order) is never rejected by the concurrency cap, the one-per-pair rule or
\* the exposure cap; on an unpaused manager with no breaker breached it is
\* rejected only when price * amount exceeds the size limit.
C28_ExitsSkipCapacityRules ==
    [][\A c \in Returned :
          ~Opening(c.signal) =>
              /\ c.rule \notin {"max_concurrent", "pair", "exposure"}
              /\ Healthy => (c.ret = "False" <=> OverSizeLimit(c.signal))
              /\ Healthy => c.ret \in {"True", "False"}]_vars

\* The ledger is full, the pair is held and the exposure cap would be passed,
\* and the reduce-only buy that closes a short was approved.
C28_Witness ==
    /\ Len(open_positions) = max_concurrent
    /\ \E c \in calls :
          /\ c.signal.reduce_only
          /\ c.signal.side = "buy"
          /\ PairIsOpen(c.signal.pair)
          /\ OverExposureCap(c.signal)
          /\ c.ret = "True"

\* C29: record_close for a pair that has no open position raises no error and
\* leaves open_positions unchanged, but still adds pnl to capital, daily_pnl
\* and daily_pnl_by_pair[pair] and appends a result to trade_results, so such
\* closes can trip the breakers.
C29_CloseWithoutPosition ==
    [][\A pair \in Pairs, pnl \in PnLs :
          (~PairIsOpen(pair) /\ record_close(pair, pnl)) =>
              /\ open_positions' = open_positions
              /\ capital' = capital + pnl
              /\ daily_pnl' = daily_pnl + pnl
              /\ pair \in DOMAIN daily_pnl_by_pair'
              /\ daily_pnl_by_pair'[pair] =
                    (IF pair \in DOMAIN daily_pnl_by_pair
                     THEN daily_pnl_by_pair[pair] ELSE 0) + pnl
              /\ trade_results' = trade_results \o <<pnl >= 0>>]_vars

\* No position was ever opened: twenty closes of pairs that were not held have
\* paused the manager through the win-rate breaker.
C29_Witness ==
    /\ open_positions = << >>
    /\ Len(trade_results) = 20
    /\ \A i \in 1..20 : ~trade_results[i]
    /\ capital = starting_capital + daily_pnl
    /\ is_paused
    /\ pause_reason = PauseWinRate

----------------------------------------------------------------------------
(* The concurrency cap under serialized callers.                           *)

\* C30: when every approve_signal is followed by the record_open of the same
\* signal, or by nothing, before any other call is served, the number of open
\* positions never exceeds max_concurrent.
C30_NeverOverCap == Len(open_positions) <= max_concurrent

\* The ledger is full and an entry on a third pair, within the size limit and
\* the exposure cap on a healthy manager, was turned down.
C30_Witness ==
    /\ Len(open_positions) = max_concurrent
    /\ Healthy
    /\ \E c \in calls :
          /\ Opening(c.signal)
          /\ ~PairIsOpen(c.signal.pair)
          /\ ~OverSizeLimit(c.signal)
          /\ ~OverExposureCap(c.signal)
          /\ c.ret = "False"

\* C31: when approve_signal + record_open is atomic per pair only, so that
\* strategies of different pairs interleave between their approve_signal and
\* their record_open, the number of open positions still never exceeds
\* max_concurrent.
C31_NeverOverCapPerPair == Len(open_positions) <= max_concurrent

\* The approved opening signals whose record_open has not run yet.
InFlight == {c \in calls : c.ret = "True" /\ Opening(c.signal)}

\* C31, amended: with approve_signal + record_open atomic per pair only, no two
\* open positions share a pair, but the cap is kept only up to the approvals in
\* flight: each was given while fewer than max_concurrent positions were open,
\* so positions and approvals in flight together stay within
\* max_concurrent - 1 plus the number of strategies that can be in flight.
C31_PerPairKeepsPairRuleOnly ==
    /\ \A i, j \in 1..Len(open_positions) :
          i # j => open_positions[i].pair # open_positions[j].pair
    /\ Len(open_positions) + Cardinality(InFlight)
          <= max_concurrent - 1 + MaxCalls

\* Three positions on three different pairs against a cap of two: the last two
\* were approved while one position was open and recorded afterwards.
C31_Witness ==
    /\ Len(open_positions) = max_concurrent + 1
    /\ \A i, j \in 1..Len(open_positions) :
          i # j => open_positions[i].pair # open_positions[j].pair

----------------------------------------------------------------------------
(* The exposure cap over time.                                             *)

----------------------------------------------------------------------------
(* Unpausing while a breaker condition holds.                              *)

\* C33: unpause() clears is_paused and pause_reason and nothing else, so
\* trade_results and daily_pnl are as before; hence, if a breaker condition
\* still holds (at least 20 results with a win rate below 40%, or a daily loss
\* at or above the limit), the first approve_signal after unpause(), whatever
\* the signal, pauses the manager again and returns False.
C33_UnpauseDoesNotForgive ==
    [][unpause =>
          /\ ~is_paused' /\ pause_reason' = ""
          /\ UNCHANGED <<capital, binance_capital, delta_capital, open_positions,
                         daily_pnl, daily_pnl_by_pair, trade_results>>
          /\ (DailyLossAtLimit \/ WinRateTooLow)' =>
                \A signal \in SignalsFor(variant) :
                    /\ approve_outcome(signal)'.ret = "False"
                    /\ approve_outcome(signal)'.paused]_vars

\* Where unpause() leaves a manager that both breakers had reason to pause:
\* unpaused, no reason, the day's loss and the twenty results still there.
C33_Witness ==
    /\ ~is_paused
    /\ pause_reason = ""
    /\ calls = {}
    /\ DailyLossAtLimit
    /\ WinRateTooLow
    /\ Len(trade_results) = 21


----------------------------------------------------------------------------
(* The strategies of src/engine/alpha/strategies: FuturesMomentumStrategy  *)
(* and ScalpStrategy.  A strategy object is a record of its fields.  The   *)
(* indicator arithmetic of check() is an input: `entry` is the side the    *)
(* entry conditions ask for ("none", "long", "short"), `rsi_exit` whether  *)
(* the RSI exit of the momentum strategy holds, `hold` how long the scalp  *)
(* position is held ("fresh", "flat": 30 minutes or more, "max": 45        *)
(* minutes or more).  Thresholds in percent are kept in basis points and   *)
(* compared by cross multiplication.  _daily_scalp_loss is kept in         *)
(* thousandths of a cent, because the estimated fee is a thousandth (or    *)
(* two) of the notional.                                                   *)

\* ScalpStrategy class constants.
CAPITAL_PCT_SPOT == 50

CAPITAL_PCT_FUTURES == 30

MAX_POSITIONS_PER_EXCHANGE == 2

MAX_TRADES_PER_HOUR == 30

CONSECUTIVE_LOSS_PAUSE == 5

DAILY_LOSS_LIMIT_PCT == 5

\* float("inf"), the initial lowest_since_entry.
Infinity == 1000000

\* alpha.trade_executor.DELTA_CONTRACT_SIZE.get(pair, 0), in hundredths of a
\* coin: one ETH contract is 0.01 ETH; a pair without an entry gives 0.
DELTA_CONTRACT_SIZE(pair) == IF pair = "ETH/USDT" THEN 1 ELSE 0

\* The pair the strategy object trades, and the prices the exchange reports.
StrategyPair == "ETH/USDT"

Prices == {980, 1000, 1030}

Entries == {"none", "long", "short"}

Holds == {"fresh", "flat", "max"}

Max(x, y) == IF x > y THEN x ELSE y

\* FuturesMomentumStrategy.__init__; leverage = min(config.delta.leverage, 20).
FuturesMomentumStrategy(leverage) ==
    [kind |-> "futures_momentum", is_futures |-> TRUE, pair |-> StrategyPair,
     leverage |-> Min(leverage, 20), capital_pct |-> max_position_pct,
     exchange_id |-> "delta",
     in_position |-> FALSE, position_side |-> "None", entry_price |-> 0,
     entry_amount |-> 0, highest_since_entry |-> 0,
     lowest_since_entry |-> Infinity,
     hourly_trades |-> 0, consecutive_losses |-> 0, paused |-> FALSE,
     daily_scalp_loss |-> 0]

\* ScalpStrategy.__init__; leverage = min(config.delta.leverage, 10) if
\* is_futures else 1.  `paused` stands for now < _paused_until and
\* `hourly_trades` for len(_hourly_trades).
ScalpStrategy(is_futures, leverage) ==
    [kind |-> "scalp", is_futures |-> is_futures, pair |-> StrategyPair,
     leverage |-> IF is_futures THEN Min(leverage, 10) ELSE 1,
     capital_pct |-> IF is_futures THEN CAPITAL_PCT_FUTURES ELSE CAPITAL_PCT_SPOT,
     exchange_id |-> IF is_futures THEN "delta" ELSE "binance",
     in_position |-> FALSE, position_side |-> "None", entry_price |-> 0,
     entry_amount |-> 0, highest_since_entry |-> 0,
     lowest_since_entry |-> Infinity,
     hourly_trades |-> 0, consecutive_losses |-> 0, paused |-> FALSE,
     daily_scalp_loss |-> 0]

\* config.delta.leverage, and the strategy objects the engine builds.
ConfigLeverages == {1, 5}

Strategies ==
    {FuturesMomentumStrategy(l) : l \in ConfigLeverages}
      \cup {ScalpStrategy(TRUE, l) : l \in ConfigLeverages}
      \cup {ScalpStrategy(FALSE, 1)}

\* The positions of the ledger held on one exchange.
OnExchange(exchange_id) ==
    SelectSeq(open_positions, LAMBDA p : p.exchange = exchange_id)

\* get_available_capital(exchange_id): the capital of the exchange minus the
\* capital committed to the open positions on that exchange.
get_available_capital(exchange_id) ==
    get_exchange_capital(exchange_id) - SumValues(OnExchange(exchange_id))

\* What one check() did: the gate it returned at ("none" if it went on to
\* the exits or the hunt), whether it evaluated the exit conditions, the
\* signals it returned, and the contracts the entry was sized to (0 when no
\* futures entry was sized).
Tick(gate, exits_checked, signals, contracts) ==
    [gate |-> gate, exits_checked |-> exits_checked, signals |-> signals,
     contracts |-> contracts]

Result(s, t) == [strategy |-> s, tick |-> t]

\* Futures sizing, shared by FuturesMomentumStrategy.check and
\* ScalpStrategy._calculate_position_size.  capital is
\* min(exchange_capital * pct / 100, available); 0 contracts stands for the
\* return without a signal (unknown contract size, or one contract's
\* collateral above the available capital).
contracts_for(s, current_price, available) ==
    LET contract_size == DELTA_CONTRACT_SIZE(s.pair)
        exchange_capital == get_exchange_capital(s.exchange_id)
        capital100 == Min(exchange_capital * s.capital_pct, available * 100)
        one_notional == contract_size * current_price
        contracts == Max((capital100 * s.leverage) \div (100 * one_notional), 1)
    IN  IF contract_size <= 0 THEN 0
        ELSE IF one_notional > available * s.leverage THEN 0
        ELSE IF contracts * one_notional > available * s.leverage
             THEN Max(1, (available * s.leverage) \div one_notional)
             ELSE contracts

\* amount = contracts * contract_size
amount_of(s, contracts) == contracts * DELTA_CONTRACT_SIZE(s.pair)

\* The entry signal of both strategies: buy for a long, sell for a short.
entry_signal(s, side, current_price, amount) ==
    IF side = "long"
    THEN Sig(s.pair, "buy", current_price, amount,
             IF s.is_futures THEN "long" ELSE "spot",
             IF s.is_futures THEN s.leverage ELSE 1,
             IF s.is_futures THEN "delta" ELSE "binance", FALSE, s.kind)
    ELSE Sig(s.pair, "sell", current_price, amount, "short", s.leverage,
             "delta", FALSE, s.kind)

\* metadata["pending_side"]: set by the entry signals only.
pending_side(signal) ==
    IF signal.reduce_only THEN "None"
    ELSE IF signal.position_type = "short" THEN "short"
    ELSE IF signal.side = "buy" THEN "long"
    ELSE "None"

\* _close_long_signal, _close_short_signal, _exit_signal: the amount is
\* entry_amount (positive whenever a position is tracked).
exit_signal(s, current_price) ==
    Sig(s.pair, IF s.position_side = "long" THEN "sell" ELSE "buy",
        current_price, s.entry_amount,
        IF s.is_futures THEN s.position_side ELSE "spot",
        IF s.is_futures THEN s.leverage ELSE 1,
        IF s.is_futures THEN "delta" ELSE "binance",
        IF s.kind = "futures_momentum" THEN TRUE ELSE s.is_futures, s.kind)

\* FuturesMomentumStrategy._reset_position
reset_position(s) ==
    [s EXCEPT !.position_side = "None", !.entry_price = 0, !.entry_amount = 0,
              !.highest_since_entry = 0, !.lowest_since_entry = Infinity]

\* FuturesMomentumStrategy.check: trailing stop 1.5%, take profit 2.5%.
futures_momentum_check(s, current_price, entry, rsi_exit) ==
    IF s.position_side = "long"
    THEN LET high == Max(s.highest_since_entry, current_price)
             t == [s EXCEPT !.highest_since_entry = high]
         IN  IF \/ current_price * 10000 <= high * (10000 - 150)
                \/ current_price * 10000 >= s.entry_price * (10000 + 250)
                \/ rsi_exit
             THEN Result(reset_position(t),
                         Tick("none", TRUE, <<exit_signal(t, current_price)>>, 0))
             ELSE Result(t, Tick("none", TRUE, << >>, 0))
    ELSE IF s.position_side = "short"
    THEN LET low == Min(s.lowest_since_entry, current_price)
             t == [s EXCEPT !.lowest_since_entry = low]
         IN  IF \/ current_price * 10000 >= low * (10000 + 150)
                \/ current_price * 10000 <= s.entry_price * (10000 - 250)
                \/ rsi_exit
             THEN Result(reset_position(t),
                         Tick("none", TRUE, <<exit_signal(t, current_price)>>, 0))
             ELSE Result(t, Tick("none", TRUE, << >>, 0))
    ELSE LET contracts ==
                 contracts_for(s, current_price, get_available_capital("delta"))
         IN  IF contracts = 0 \/ entry = "none"
             THEN Result(s, Tick("none", FALSE, << >>, contracts))
             ELSE Result(s, Tick("none", FALSE,
                                 <<entry_signal(s, entry, current_price,
                                                amount_of(s, contracts))>>,
                                 contracts))


\* ScalpStrategy._calculate_position_size: the amount in hundredths of a
\* coin, 0 for the return of None.  Spot: capital / current_price.
calculate_position_size(s, current_price, available) ==
    IF s.is_futures
    THEN amount_of(s, contracts_for(s, current_price, available))
    ELSE Min(get_exchange_capital(s.exchange_id) * s.capital_pct, available * 100)
            \div (100 * current_price)

\* ScalpStrategy._record_scalp_result for an exit at current_price.  The net
\* P&L is the gross P&L minus fees of 0.1% (delta) or 0.2% (binance) of the
\* notional; pnl_pct has the sign of the gross P&L.
record_scalp_result(s, current_price) ==
    LET notional == s.entry_price * s.entry_amount
        gross_pnl == IF s.position_side = "long"
                     THEN (current_price - s.entry_price) * s.entry_amount
                     ELSE (s.entry_price - current_price) * s.entry_amount
        net_pnl == gross_pnl * 1000
                     - notional * (IF s.exchange_id = "delta" THEN 1 ELSE 2)
        losses == IF gross_pnl >= 0 THEN 0 ELSE s.consecutive_losses + 1
    IN  [s EXCEPT !.daily_scalp_loss = @ + Min(net_pnl, 0),
                  !.consecutive_losses = losses,
                  !.paused = IF losses >= CONSECUTIVE_LOSS_PAUSE THEN TRUE ELSE @,
                  !.in_position = FALSE, !.position_side = "None",
                  !.entry_price = 0, !.entry_amount = 0]

\* ScalpStrategy._check_exits: take profit 1.5%, stop loss 0.75%, trailing
\* 0.40% once 0.80% is reached, timeout, flatline below 0.1%.
check_exits(s, current_price, hold) ==
    LET long == s.position_side = "long"
        move == IF long THEN current_price - s.entry_price
                ELSE s.entry_price - current_price
        high == Max(s.highest_since_entry, current_price)
        low == Min(s.lowest_since_entry, current_price)
        t == IF long THEN [s EXCEPT !.highest_since_entry = high]
             ELSE [s EXCEPT !.lowest_since_entry = low]
        trailing == move * 10000 >= 80 * s.entry_price
        take_profit == move * 10000 >= 150 * s.entry_price
        stopped ==
            IF long
            THEN IF trailing THEN current_price * 10000 <= high * (10000 - 40)
                 ELSE current_price * 10000 <= s.entry_price * (10000 - 75)
            ELSE IF trailing THEN current_price * 10000 >= low * (10000 + 40)
                 ELSE current_price * 10000 >= s.entry_price * (10000 + 75)
        flatline == hold = "flat" /\ Abs(move) * 10000 < 10 * s.entry_price
    IN  IF s.position_side \notin {"long", "short"}
        THEN Result(s, Tick("none", TRUE, << >>, 0))
        ELSE IF take_profit \/ stopped \/ hold = "max" \/ flatline
        THEN Result(record_scalp_result(t, current_price),
                    Tick("none", TRUE, <<exit_signal(t, current_price)>>, 0))
        ELSE Result(t, Tick("none", TRUE, << >>, 0))

\* len([p for p in open_positions if p.strategy == "scalp" and
\*      p.exchange_id == self._exchange_id])
scalp_positions(s) ==
    Len(SelectSeq(open_positions,
                  LAMBDA p : p.strategy = "scalp" /\ p.exchange = s.exchange_id))

\* ScalpStrategy.check.  The three gates come first, then the exits of a
\* tracked position, then the hunt.  A spread above the limit is part of the
\* input entry = "none"; a spot scalp never shorts (can_short).
scalp_check(s, current_price, entry, hold) ==
    LET available == get_available_capital(s.exchange_id)
        min_balance == IF s.exchange_id = "binance" THEN 550 ELSE 100
        amount == calculate_position_size(s, current_price, available)
        contracts == IF s.is_futures
                     THEN contracts_for(s, current_price, available) ELSE 0
    IN  IF s.paused
        THEN Result(s, Tick("pause", FALSE, << >>, 0))
        ELSE IF s.daily_scalp_loss * 100
                  <= -(get_exchange_capital(s.exchange_id) * DAILY_LOSS_LIMIT_PCT * 1000)
        THEN Result(s, Tick("daily_loss", FALSE, << >>, 0))
        ELSE IF s.hourly_trades >= MAX_TRADES_PER_HOUR
        THEN Result(s, Tick("rate_limit", FALSE, << >>, 0))
        ELSE IF s.in_position
        THEN check_exits(s, current_price, hold)
        ELSE IF \/ has_position(s.pair)
                \/ scalp_positions(s) >= MAX_POSITIONS_PER_EXCHANGE
                \/ available < min_balance
                \/ amount = 0
                \/ entry = "none"
                \/ (entry = "short" /\ ~s.is_futures)
        THEN Result(s, Tick("none", FALSE, << >>, 0))
        ELSE Result(s, Tick("none", FALSE,
                            <<entry_signal(s, entry, current_price, amount)>>,
                            contracts))

\* check() of the strategy object.
check(s, current_price, entry, rsi_exit, hold) ==
    IF s.kind = "scalp" THEN scalp_check(s, current_price, entry, hold)
    ELSE futures_momentum_check(s, current_price, entry, rsi_exit)

\* on_fill(signal, order) for an order filled at the signal's price and
\* amount: FuturesMomentumStrategy.on_fill, and ScalpStrategy.on_fill with
\* its _open_position.
on_fill(s, signal) ==
    IF pending_side(signal) = "None" THEN s
    ELSE IF s.kind = "scalp"
    THEN [s EXCEPT !.in_position = TRUE,
                   !.position_side = pending_side(signal),
                   !.entry_price = signal.price, !.entry_amount = signal.amount,
                   !.highest_since_entry = signal.price,
                   !.lowest_since_entry = signal.price,
                   !.hourly_trades = @ + 1]
    ELSE IF pending_side(signal) = "long"
    THEN [s EXCEPT !.position_side = "long", !.entry_price = signal.price,
                   !.entry_amount = signal.amount,
                   !.highest_since_entry = signal.price]
    ELSE [s EXCEPT !.position_side = "short", !.entry_price = signal.price,
                   !.entry_amount = signal.amount,
                   !.lowest_since_entry = signal.price]

\* on_rejected(signal): a log line.
on_rejected(s, signal) == s


----------------------------------------------------------------------------
(* The run loop of a strategy and the executor: check(), then               *)
(* approve_signal for the signal it returned, then on_fill and record_open  *)
(* for an entry that filled, on_rejected for an entry that did not, and     *)
(* record_close for an exit that was approved and filled.  One signal is in *)
(* flight at a time.                                                        *)

\* Closed round trips per run, and positions opened in the trending hour.
MaxRoundTrips == 2

MaxHourTrades == 31

\* The engine after its first balance fetch: both pools funded, one strategy
\* object built.
InitStrategy ==
    /\ variant = "multi"
    /\ binance_capital = starting_capital
    /\ delta_capital = starting_capital
    /\ capital = binance_capital + delta_capital
    /\ open_positions = << >>
    /\ daily_pnl = 0
    /\ daily_pnl_by_pair = << >>
    /\ trade_results = << >>
    /\ is_paused = FALSE
    /\ pause_reason = ""
    /\ calls = {}
    /\ caller = [op |-> "none"]
    /\ strategy \in Strategies
    /\ tick = Tick("none", FALSE, << >>, 0)
    /\ bot = NoObject
    /\ tasks = {}

\* One tick of the run loop with the market as given.
CheckAt(current_price, entry, rsi_exit, hold) ==
    LET out == check(strategy, current_price, entry, rsi_exit, hold)
    IN  /\ Idle
        /\ strategy' = out.strategy
        /\ tick' = out.tick
        /\ IF out.tick.signals = << >>
           THEN UNCHANGED <<variant, rm_vars, calls>>
           ELSE approve_signal(out.tick.signals[1])
        /\ UNCHANGED <<caller, bot, tasks>>

\* The RSI exit is read by the momentum strategy only, the holding time by
\* the scalp strategy only.
Check ==
    \E current_price \in Prices, entry \in Entries,
       rsi_exit \in IF strategy.kind = "scalp" THEN {FALSE} ELSE BOOLEAN,
       hold \in IF strategy.kind = "scalp" THEN Holds ELSE {"fresh"} :
        CheckAt(current_price, entry, rsi_exit, hold)

\* A steadily rising market: entries are long at 1000, and a tracked
\* position sees 1030.
TrendingCheck ==
    CheckAt(IF strategy.position_side = "None" THEN 1000 ELSE 1030,
            "long", FALSE, "fresh")

\* The approved entry filled: on_fill, then record_open.
OrderFilled ==
    \E c \in calls :
        /\ c.ret = "True"
        /\ is_opening(c.signal)
        /\ strategy' = on_fill(strategy, c.signal)
        /\ record_open(c.signal)
        /\ calls' = calls \ {c}
        /\ UNCHANGED <<caller, tick, bot, tasks>>

\* The entry was rejected, or its order failed: on_rejected.
OrderFailed ==
    \E c \in calls :
        /\ is_opening(c.signal)
        /\ strategy' = on_rejected(strategy, c.signal)
        /\ calls' = calls \ {c}
        /\ UNCHANGED <<variant, rm_vars, caller, tick, bot, tasks>>

\* The realized P&L of closing the ledger's position of the pair at a price.
RealizedPnl(pair, price) ==
    LET held == SelectSeq(open_positions, LAMBDA p : p.pair = pair)
    IN  IF held = << >> THEN 0
        ELSE IF held[1].side = "buy"
        THEN (price - held[1].entry_price) * held[1].amount
        ELSE (held[1].entry_price - price) * held[1].amount

\* The approved exit filled: record_close with the realized P&L.
ExitFilled ==
    \E c \in calls :
        /\ c.ret = "True"
        /\ ~is_opening(c.signal)
        /\ record_close(c.signal.pair, RealizedPnl(c.signal.pair, c.signal.price))
        /\ calls' = calls \ {c}
        /\ UNCHANGED <<caller, strategy, tick, bot, tasks>>

\* The exit was rejected, or its order failed: nothing is recorded.
ExitDropped ==
    \E c \in calls :
        /\ ~is_opening(c.signal)
        /\ calls' = calls \ {c}
        /\ UNCHANGED <<variant, rm_vars, caller, strategy, tick, bot, tasks>>

\* The balances the exchange reports for the delta pool, in cents.
DeltaPools == {<<10000>>, <<100000>>}

PoolUpdate ==
    \E delta \in DeltaPools :
        /\ delta[1] # delta_capital
        /\ update_exchange_balances(<< >>, delta)
        /\ UNCHANGED <<calls, caller, app_vars>>

\* The clock passes _paused_until and the oldest hourly trade ages out.
ClockAdvance ==
    /\ strategy.paused \/ strategy.hourly_trades >= MAX_TRADES_PER_HOUR
    /\ strategy' = [strategy EXCEPT !.paused = FALSE,
                                    !.hourly_trades = Max(@ - 1, 0)]
    /\ UNCHANGED <<variant, rm_vars, calls, caller, tick, bot, tasks>>

\* The dashboard pauses the bot, with the default reason.
PauseCommand ==
    /\ pause_command(<< >>)
    /\ UNCHANGED <<calls, caller, app_vars>>

NextStrategy ==
    \/ Len(trade_results) < MaxRoundTrips /\ Check
    \/ OrderFilled
    \/ OrderFailed
    \/ ExitFilled
    \/ ExitDropped
    \/ Idle /\ PauseCommand
    \/ Idle /\ Unpause
    \/ Idle /\ PoolUpdate

SpecStrategy == InitStrategy /\ [][NextStrategy]_vars

\* The scalp strategy on futures at leverage 1 through a rising hour.
InitScalp == InitStrategy /\ strategy = ScalpStrategy(TRUE, 1)

NextScalpHour ==
    \/ Len(trade_results) < MaxHourTrades /\ TrendingCheck
    \/ OrderFilled
    \/ OrderFailed
    \/ ExitFilled
    \/ ExitDropped
    \/ ClockAdvance

SpecScalpHour == InitScalp /\ [][NextScalpHour]_vars


----------------------------------------------------------------------------
(* C34 - C37: the strategies and their run loop.                            *)

\* The futures entries in flight: emitted by the last check(), not yet
\* filled or rejected.
FuturesEntriesInFlight ==
    {c \in calls : IsFutures(c.signal) /\ is_opening(c.signal)}

\* C34: every futures entry signal of FuturesMomentumStrategy.check and of
\* ScalpStrategy in futures mode carries an amount such that price * amount
\* is the collateral that was sized, contracts * contract_size * price /
\* leverage.
C34_AmountIsCollateral ==
    \A c \in FuturesEntriesInFlight :
        c.signal.price * c.signal.amount * c.signal.leverage
            = tick.contracts * DELTA_CONTRACT_SIZE(c.signal.pair) * c.signal.price

\* A 5x entry of 150 contracts at $1000 is in flight: price * amount is the
\* notional, $1500, five times the collateral of $300, and approve_signal
\* has rejected it.
C34_Witness ==
    \E c \in FuturesEntriesInFlight :
        /\ c.signal.leverage = 5
        /\ c.signal.price = 1000
        /\ tick.contracts = 150
        /\ c.signal.price * c.signal.amount = 150000
        /\ c.ret = "False"


\* The strategy's local view of its position.
LocalPosition ==
    <<strategy.position_side, strategy.entry_price, strategy.entry_amount,
      strategy.in_position>>

\* C35: the local position state of a strategy (position_side, entry_price,
\* entry_amount, and in_position of the scalp strategy) changes only in
\* on_fill, on a confirmed fill; a check() that emits an entry or an exit
\* signal, and on_rejected, leave it as it was.
C35_PositionChangesOnlyOnFill ==
    [][LocalPosition' # LocalPosition => OrderFilled]_vars

\* check() has just emitted an exit: the signal is in flight, the strategy
\* already tracks no position, and the ledger still holds the position.
C35_Witness ==
    /\ \E c \in calls : ~is_opening(c.signal) /\ tick.signals = <<c.signal>>
    /\ LocalPosition = <<"None", 0, 0, FALSE>>
    /\ has_position(strategy.pair)


\* The strategy tracks no position.
Flat == strategy.position_side = "None" /\ ~strategy.in_position

\* C36: whenever no signal is in flight, the strategy's local view and the
\* ledger agree: the strategy is flat exactly when has_position(pair) is
\* false, also after an exit signal was rejected.
C36_StrategyAgreesWithLedger ==
    calls = {} => (Flat <=> ~has_position(strategy.pair))

\* The exit that check() returned was rejected by the paused manager and
\* dropped: no signal is in flight, the strategy is flat, and the ledger
\* still holds the position, which no later check() offers for closing.
C36_Witness ==
    /\ calls = {}
    /\ is_paused
    /\ tick.signals # << >> /\ ~is_opening(tick.signals[1])
    /\ Flat
    /\ has_position(strategy.pair)
    /\ \A current_price \in Prices, entry \in Entries, rsi_exit \in BOOLEAN,
          hold \in Holds :
           LET out == check(strategy, current_price, entry, rsi_exit, hold)
           IN  \A i \in 1..Len(out.tick.signals) : is_opening(out.tick.signals[i])


\* C37: whenever the scalp strategy is in a position, every check() tick
\* evaluates the exit conditions: neither the hourly rate limit, nor the
\* consecutive-loss pause, nor the daily scalp loss limit makes check()
\* return before _check_exits while a position is open.
C37_ExitsAlwaysEvaluated ==
    [][(Check /\ strategy.kind = "scalp" /\ strategy.in_position)
          => tick'.exits_checked]_vars

\* The 30th position of the hour is open and check() has returned at the
\* rate limit, without looking at the exits.
C37_Witness ==
    /\ strategy.in_position
    /\ strategy.hourly_trades = MAX_TRADES_PER_HOUR
    /\ tick.gate = "rate_limit"
    /\ ~tick.exits_checked
    /\ has_position(strategy.pair)

\* A position is open and check() has returned at the daily scalp loss
\* limit, after the exchange reported a smaller delta pool.
C37_DailyLossGateWitness ==
    /\ strategy.in_position
    /\ tick.gate = "daily_loss"
    /\ ~tick.exits_checked


----------------------------------------------------------------------------
(* AlphaBot (src/alpha/main.py) and StrategySelector                        *)
(* (src/alpha/strategy_selector.py).  The bot is a record of _running,      *)
(* _active_strategies (the name of the pair's active strategy, "None" for   *)
(* None), the set `started` of the strategies whose start() was called and  *)
(* whose stop() has not completed, the selector's _current, and two marks   *)
(* of shutdown(): the number of calls made and whether one ran to its end;  *)
(* the analysis cycles and the commands of a run are counted as well.       *)
(* A coroutine suspended at an await is a record in `tasks`; an action is   *)
(* the code between two awaits.                                             *)

\* StrategyName: the three strategies start() registers for every pair.
StrategyNames == {"grid", "momentum", "arbitrage"}

\* config.trading.pairs, and the pairs a force_strategy command may name.
CommandPairs == Pairs \cup {"SOL/USDT"}

\* MarketAnalysis: the fields select() reads.  atr is << >> for None, or
\* <<a>> for the float a.
Conditions == {"sideways", "trending", "volatile", "unknown"}

Atrs == {<< >>, <<0>>, <<15>>}

VolumeRatios == {2, 3}

Analysis(pair, condition, atr, volume_ratio) ==
    [pair |-> pair, condition |-> condition, atr |-> atr,
     volume_ratio |-> volume_ratio]

Analyses ==
    {Analysis(pair, condition, atr, volume_ratio) :
        pair \in Pairs, condition \in Conditions, atr \in Atrs,
        volume_ratio \in VolumeRatios}

\* shutdown() calls, analysis cycles and force_strategy commands of a run.
MaxShutdownCalls == 2

MaxCycles == 2

MaxCommands == 1

\* Reading in which the market condition is looked at before the arbitrage
\* opportunity.
select_condition_first(arb_enabled, analysis, arb_opportunity) ==
    IF analysis.condition = "sideways" THEN "grid"
    ELSE IF analysis.condition = "trending" THEN "momentum"
    ELSE IF arb_enabled /\ arb_opportunity THEN "arbitrage"
    ELSE IF analysis.condition = "volatile"
            /\ analysis.atr \notin {<< >>, <<0>>} /\ analysis.volume_ratio > 2
    THEN "None"
    ELSE "grid"

\* StrategySelector.select: the value returned.  `analysis.atr and ...` is
\* false for atr None and for atr 0.0.
select(arb_enabled, analysis, arb_opportunity) ==
    IF arb_enabled /\ arb_opportunity THEN "arbitrage"
    ELSE IF analysis.condition = "sideways" THEN "grid"
    ELSE IF analysis.condition = "trending" THEN "momentum"
    ELSE IF analysis.condition = "volatile"
    THEN IF analysis.atr \notin {<< >>, <<0>>} /\ analysis.volume_ratio > 2
         THEN "None"
         ELSE "grid"
    ELSE "grid"

\* self._current.get(pair)
current_strategy(b, pair) ==
    IF pair \in DOMAIN b.current THEN b.current[pair] ELSE "None"

\* self._strategies.get(pair, {})
Registered(pair) == IF pair \in Pairs THEN StrategyNames ELSE {}

\* self._active_strategies.get(pair)
ActiveOf(b, pair) == IF pair \in DOMAIN b.active THEN b.active[pair] ELSE "None"

\* Where a call of _switch_strategy stands: the bot, the await it is
\* suspended at ("done" after its return), and its local `current`.
Switched(b, pc, current) == [bot |-> b, pc |-> pc, current |-> current]

\* _switch_strategy from `if name is None` to `await strategy.start()`.
switch_start(b, pair, name, current) ==
    IF name = "None" THEN Switched(b, "done", current)
    ELSE IF name \notin Registered(pair) THEN Switched(b, "done", current)
    ELSE Switched([b EXCEPT !.active[pair] = name,
                            !.started = @ \cup {<<pair, name>>}],
                  "starting", current)

\* _switch_strategy from its first line to its first await.
switch_begin(b, pair, name) ==
    LET current == ActiveOf(b, pair)
    IN  IF current = name THEN Switched(b, "done", current)
        ELSE IF current # "None" THEN Switched(b, "stopping", current)
        ELSE switch_start(b, pair, name, current)

\* _switch_strategy resumed after `await current.stop()`.
switch_after_stop(b, pair, name, current) ==
    switch_start([b EXCEPT !.started = @ \ {<<pair, current>>},
                           !.active[pair] = "None"],
                 pair, name, current)

\* A suspended coroutine: todo is the cycle's remaining pairs, stops the
\* strategies shutdown() awaits the stop() of.
Task(kind, pc, todo, pair, name, current) ==
    [kind |-> kind, pc |-> pc, todo |-> todo, pair |-> pair, name |-> name,
     current |-> current, stops |-> {}]

\* The tasks after task t moved on to where r says: a cycle goes back to its
\* loop after a switch, a command ends.
Moved(t, r) ==
    IF r.pc # "done"
    THEN (tasks \ {t}) \cup {[t EXCEPT !.pc = r.pc, !.current = r.current]}
    ELSE IF t.kind = "cycle"
    THEN (tasks \ {t}) \cup {Task("cycle", "loop", t.todo, "", "", "")}
    ELSE tasks \ {t}

\* The bot when start() has registered the strategies and set _running
\* (main.py:82-107), with the single-exchange RiskManager.
InitBot ==
    /\ variant = "single"
    /\ capital = starting_capital
    /\ binance_capital = 0
    /\ delta_capital = 0
    /\ open_positions = << >>
    /\ daily_pnl = 0
    /\ daily_pnl_by_pair = << >>
    /\ trade_results = << >>
    /\ is_paused = FALSE
    /\ pause_reason = ""
    /\ calls = {}
    /\ caller = [op |-> "none"]
    /\ strategy = NoObject
    /\ tick = NoObject
    /\ \E arb_enabled \in BOOLEAN :
          bot = [running |-> TRUE, arb_enabled |-> arb_enabled,
                 active |-> [p \in Pairs |-> "None"], started |-> {},
                 current |-> << >>,
                 shutdown_calls |-> 0, shutdown_complete |-> FALSE,
                 cycles |-> 0, commands |-> 0]
    /\ tasks = {}

Quiet == UNCHANGED <<variant, rm_vars, calls, caller, strategy, tick>>

\* _analysis_cycle up to `await asyncio.gather(*analysis_tasks)`; todo is the
\* set of pairs whose analysis will succeed.
CycleStart ==
    \E todo \in SUBSET Pairs :
        /\ bot.running
        /\ ~bot.shutdown_complete
        /\ bot.cycles < MaxCycles
        /\ \A t \in tasks : t.kind # "cycle"
        /\ tasks' = tasks \cup {Task("cycle", "loop", todo, "", "", "")}
        /\ bot' = [bot EXCEPT !.cycles = @ + 1]
        /\ Quiet

\* One turn of the loop up to the return of select(): the arbitrage check
\* (only with a second exchange), then select, which stores its choice.
Select(t, analysis, arb_opportunity) ==
    LET selected == select(bot.arb_enabled, analysis, arb_opportunity)
    IN  /\ t \in tasks
        /\ t.kind = "cycle" /\ t.pc = "loop"
        /\ analysis.pair \in t.todo
        /\ ~bot.shutdown_complete
        /\ bot.arb_enabled \/ ~arb_opportunity
        /\ bot' = [bot EXCEPT !.current =
                      [p \in DOMAIN @ \cup {analysis.pair} |->
                          IF p = analysis.pair THEN selected ELSE @[p]]]
        /\ tasks' = (tasks \ {t})
                      \cup {Task("cycle", "selected", t.todo \ {analysis.pair},
                                 analysis.pair, selected, "")}
        /\ Quiet

CycleSelect ==
    \E t \in tasks, analysis \in Analyses, arb_opportunity \in BOOLEAN :
        Select(t, analysis, arb_opportunity)

\* The loop has no analysis left.
CycleEnd ==
    \E t \in tasks :
        /\ t.kind = "cycle" /\ t.pc = "loop" /\ t.todo = {}
        /\ tasks' = tasks \ {t}
        /\ UNCHANGED bot
        /\ Quiet

\* The cycle calls _switch_strategy(pair, selected).
SwitchBegin ==
    \E t \in tasks :
        /\ t.pc = "selected"
        /\ ~bot.shutdown_complete
        /\ LET r == switch_begin(bot, t.pair, t.name)
           IN  bot' = r.bot /\ tasks' = Moved(t, r)
        /\ Quiet

SwitchAfterStop ==
    \E t \in tasks :
        /\ t.pc = "stopping"
        /\ ~bot.shutdown_complete
        /\ LET r == switch_after_stop(bot, t.pair, t.name, t.current)
           IN  bot' = r.bot /\ tasks' = Moved(t, r)
        /\ Quiet

\* Resumed after `await strategy.start()`: the alert, then the return.
SwitchAfterStart ==
    \E t \in tasks :
        /\ t.pc = "starting"
        /\ ~bot.shutdown_complete
        /\ tasks' = Moved(t, Switched(bot, "done", t.current))
        /\ UNCHANGED bot
        /\ Quiet

\* _poll_commands is at `await self.db.poll_pending_commands()`, which will
\* deliver a force_strategy command.
CommandPolled ==
    \E pair \in CommandPairs, name \in StrategyNames :
        /\ bot.running
        /\ ~bot.shutdown_complete
        /\ bot.commands < MaxCommands
        /\ \A t \in tasks : t.kind # "command"
        /\ tasks' = tasks \cup {Task("command", "polling", {}, pair, name, "")}
        /\ bot' = [bot EXCEPT !.commands = @ + 1]
        /\ Quiet

\* _handle_command, force_strategy: unpause, then _switch_strategy.
CommandHandle ==
    \E t \in tasks :
        /\ t.pc = "polling"
        /\ ~bot.shutdown_complete
        /\ unpause
        /\ LET r == switch_begin(bot, t.pair, t.name)
           IN  bot' = r.bot /\ tasks' = Moved(t, r)
        /\ UNCHANGED <<calls, caller, strategy, tick>>

\* The strategies shutdown() collects a stop() for.
ActiveStrategies(b) ==
    {<<p, b.active[p]>> : p \in {q \in DOMAIN b.active : b.active[q] # "None"}}

\* shutdown() up to its first await: the return of a call that finds
\* _running false, else the flag and the stop tasks; without stop tasks the
\* first await is _save_status.
ShutdownCall ==
    /\ bot.shutdown_calls < MaxShutdownCalls
    /\ ~bot.shutdown_complete
    /\ IF ~bot.running
       THEN /\ bot' = [bot EXCEPT !.shutdown_calls = @ + 1]
            /\ UNCHANGED tasks
       ELSE IF ActiveStrategies(bot) # {}
       THEN /\ bot' = [bot EXCEPT !.shutdown_calls = @ + 1, !.running = FALSE]
            /\ tasks' = tasks \cup
                  {[Task("shutdown", "gather", {}, "", "", "")
                       EXCEPT !.stops = ActiveStrategies(bot)]}
       ELSE /\ bot' = [bot EXCEPT !.shutdown_calls = @ + 1, !.running = FALSE,
                                  !.active = [p \in Pairs |-> "None"]]
            /\ tasks' = tasks \cup {Task("shutdown", "saving", {}, "", "", "")}
    /\ Quiet

\* Resumed after asyncio.gather(*stop_tasks): the collected strategies have
\* stopped; every slot is set to None; the next await is _save_status.
ShutdownGathered ==
    \E t \in tasks :
        /\ t.kind = "shutdown" /\ t.pc = "gather"
        /\ bot' = [bot EXCEPT !.started = @ \ t.stops,
                              !.active = [p \in Pairs |-> "None"]]
        /\ tasks' = (tasks \ {t}) \cup {Task("shutdown", "saving", {}, "", "", "")}
        /\ Quiet

\* The remaining awaits of shutdown() touch no strategy: "Shutdown complete".
ShutdownDone ==
    \E t \in tasks :
        /\ t.kind = "shutdown" /\ t.pc = "saving"
        /\ bot' = [bot EXCEPT !.shutdown_complete = TRUE]
        /\ tasks' = tasks \ {t}
        /\ Quiet

\* The analysis cycles and the dashboard's force_strategy commands.
NextBot ==
    \/ CycleStart
    \/ CycleSelect
    \/ CycleEnd
    \/ SwitchBegin
    \/ SwitchAfterStop
    \/ SwitchAfterStart
    \/ CommandPolled
    \/ CommandHandle

SpecBot == InitBot /\ [][NextBot]_vars

\* A run of one analysis cycle and one command that is shut down.
NextShutdown ==
    \/ bot.cycles = 0 /\ CycleStart
    \/ CycleSelect
    \/ CycleEnd
    \/ SwitchBegin
    \/ SwitchAfterStop
    \/ SwitchAfterStart
    \/ CommandPolled
    \/ CommandHandle
    \/ ShutdownCall
    \/ ShutdownGathered
    \/ ShutdownDone

SpecShutdown == InitBot /\ [][NextShutdown]_vars


----------------------------------------------------------------------------
(* C38: what select() returns and stores.                                   *)

\* The value the selection rules give; atr_set says whether the analysis
\* counts as having its atr set.
Selection(arb_enabled, analysis, arb_opportunity, atr_set) ==
    IF arb_enabled /\ arb_opportunity THEN "arbitrage"
    ELSE IF analysis.condition = "sideways" THEN "grid"
    ELSE IF analysis.condition = "trending" THEN "momentum"
    ELSE IF analysis.condition = "volatile" /\ atr_set
            /\ analysis.volume_ratio > 2
    THEN "None"
    ELSE "grid"

\* A select() call on `analysis` returned `selected`: the cycle holds it,
\* current_strategy(pair) gives it, and no other pair's entry moved.
Selected(analysis, selected) ==
    /\ \E u \in tasks' :
          u.pc = "selected" /\ u.pair = analysis.pair /\ u.name = selected
    /\ current_strategy(bot', analysis.pair) = selected
    /\ \A p \in CommandPairs \ {analysis.pair} :
          /\ current_strategy(bot', p) = current_strategy(bot, p)
          /\ p \in DOMAIN bot'.current <=> p \in DOMAIN bot.current

\* C38 as stated, "atr set" read as atr is not None: select returns ARBITRAGE
\* when arbitrage is enabled and an opportunity is flagged, otherwise GRID
\* for sideways, MOMENTUM for trending, None for volatile with an atr and
\* volume_ratio > 2, GRID in every other case; current_strategy(pair) is the
\* returned value and the other pairs' tracked strategies are unchanged.
C38_SelectAsStated ==
    [][\A t \in tasks, analysis \in Analyses, arb_opportunity \in BOOLEAN :
          Select(t, analysis, arb_opportunity)
          => Selected(analysis,
                      Selection(bot.arb_enabled, analysis, arb_opportunity,
                                analysis.atr # << >>))]_vars

\* C38 amended: the same, with None returned for volatile only when the atr
\* is set and is not 0.0 (and volume_ratio > 2); an atr of 0.0 gives GRID.
C38_SelectReturns ==
    [][\A t \in tasks, analysis \in Analyses, arb_opportunity \in BOOLEAN :
          Select(t, analysis, arb_opportunity)
          => Selected(analysis,
                      Selection(bot.arb_enabled, analysis, arb_opportunity,
                                analysis.atr \notin {<< >>, <<0>>}))]_vars

\* select() has just returned ARBITRAGE for one pair while the other pair,
\* paused by an earlier select(), is still tracked as None.
C38_Witness ==
    \E t \in tasks :
        /\ t.pc = "selected" /\ t.name = "arbitrage"
        /\ current_strategy(bot, t.pair) = "arbitrage"
        /\ \E p \in DOMAIN bot.current \ {t.pair} : bot.current[p] = "None"


----------------------------------------------------------------------------
(* C39: one active strategy per pair.                                       *)

\* The strategies of a pair that are running: started and not yet stopped.
Running(pair) == {n \in StrategyNames : <<pair, n>> \in bot.started}

\* C39: _switch_strategy keeps at most one active strategy per pair: the
\* current strategy is stopped before the new one is started, so a pair never
\* has two running strategies, and a running strategy is the one the pair's
\* slot names.
C39_OneActivePerPair ==
    \A pair \in Pairs :
        /\ Cardinality(Running(pair)) <= 1
        /\ Running(pair) \subseteq {ActiveOf(bot, pair)}

\* Every _switch_strategy call has returned, and a pair is left with two
\* running strategies, one of which no slot names.
C39_Witness ==
    /\ tasks = {}
    /\ \E pair \in Pairs :
          /\ Cardinality(Running(pair)) = 2
          /\ ActiveOf(bot, pair) \in Running(pair)


----------------------------------------------------------------------------
(* C40: shutdown().                                                         *)

\* No pair has an active strategy and no strategy is running.
AllStopped ==
    /\ \A pair \in DOMAIN bot.active : bot.active[pair] = "None"
    /\ bot.started = {}

\* C40: shutdown() is idempotent (a call that finds the bot already shutting
\* down returns without effect), and once shutdown() has completed no pair
\* has an active running strategy, whatever analysis cycle or dashboard
\* command was suspended at an await when it started.
C40_ShutdownStopsEverything ==
    [][/\ (ShutdownCall /\ ~bot.running)
            => /\ tasks' = tasks
               /\ bot' = [bot EXCEPT !.shutdown_calls = bot'.shutdown_calls]
       /\ bot'.shutdown_complete => AllStopped']_vars

\* shutdown() was called twice and has completed, and a strategy that a
\* suspended cycle or command started during its awaits is still running in
\* its pair's slot.
C40_Witness ==
    /\ bot.shutdown_complete
    /\ bot.shutdown_calls = 2
    /\ ~bot.running
    /\ \E pair \in Pairs :
          /\ bot.active[pair] # "None"
          /\ <<pair, bot.active[pair]>> \in bot.started

====
